---- MODULE Spec2Model ----
(***************************************************************************)
(* Relevance scoring of search results (src/src/scoring.py).               *)
(*                                                                         *)
(* RelevanceScorer turns a document's rank and timestamp into three        *)
(* scores and adds them to a copy of the document.  The module models the  *)
(* scorer's four methods, the Python values they work on (float, datetime, *)
(* dict) and the callers that drive them.                                  *)
(***************************************************************************)
EXTENDS Integers, Sequences, FiniteSets, TLC

VARIABLES scorer, heap, hist, run, frames

vars == <<scorer, heap, hist, run, frames>>

(***************************************************************************)
(* Python float.                                                           *)
(*                                                                         *)
(* A float is <<m, e>>, standing for m * 10^e, with m = 0 (and e = 0) or   *)
(* 10^7 <= m < 10^8: eight significant decimal digits, results truncated.  *)
(* Every score of the program is >= 0, so there is no sign.  The exponent  *)
(* is unbounded here; the double's range is applied where the program can  *)
(* leave it, at math.exp (see MathExp).                                    *)
(***************************************************************************)
Pow10(n) == 10 ^ n

MantLo == Pow10(7)

MantHi == Pow10(8)

Half == Pow10(4)

Zero == <<0, 0>>

RECURSIVE Norm(_, _)
\* m * 10^e as a float, for 0 <= m < 10^9.
Norm(m, e) ==
    IF m = 0 THEN Zero
    ELSE IF m >= MantHi THEN Norm(m \div 10, e + 1)
    ELSE IF m < MantLo THEN Norm(m * 10, e - 1)
    ELSE <<m, e>>

\* float(n) for an int n >= 0.
FInt(n) == Norm(n, 0)

One == FInt(1)

IsZero(a) == a[1] = 0

FLess(a, b) ==
    IF IsZero(b) THEN FALSE
    ELSE IF IsZero(a) THEN TRUE
    ELSE IF a[2] # b[2] THEN a[2] < b[2]
    ELSE a[1] < b[1]

FLeq(a, b) == a = b \/ FLess(a, b)

\* a * b.  The mantissas are split in two halves of four digits so that no
\* intermediate product leaves the integers of the checker.
FMul(a, b) ==
    IF IsZero(a) \/ IsZero(b) THEN Zero
    ELSE LET ah == a[1] \div Half
             al == a[1] % Half
             bh == b[1] \div Half
             bl == b[1] % Half
             cross == ah * bl + al * bh
             low == al * bl
             carry == cross + (low \div Half)
             top == ah * bh * 10 + (carry \div 1000)
         IN  Norm(top, a[2] + b[2] + 7)

\* a + b.
FAdd(a, b) ==
    IF IsZero(a) THEN b
    ELSE IF IsZero(b) THEN a
    ELSE LET hi == IF a[2] >= b[2] THEN a ELSE b
             lo == IF a[2] >= b[2] THEN b ELSE a
             shift == hi[2] - lo[2]
         IN  IF shift > 8 THEN hi
             ELSE Norm(hi[1] + (lo[1] \div Pow10(shift)), hi[2])

RECURSIVE LongDiv(_, _, _, _)
\* The digits of (q + r / k) * 10^e, q brought up to eight digits.
LongDiv(q, r, k, e) ==
    IF q >= MantLo \/ (q = 0 /\ r = 0) THEN Norm(q, e)
    ELSE LongDiv(q * 10 + ((r * 10) \div k), (r * 10) % k, k, e - 1)

\* a / k for an int k >= 1.
FDivInt(a, k) ==
    IF IsZero(a) THEN Zero
    ELSE LongDiv(a[1] \div k, a[1] % k, k, a[2])

RECURSIVE FPow(_, _)
\* a ** n for an int n >= 0, by squaring.
FPow(a, n) ==
    IF n = 0 THEN One
    ELSE IF n % 2 = 0 THEN LET h == FPow(a, n \div 2) IN FMul(h, h)
    ELSE FMul(a, FPow(a, n - 1))

\* The nearest multiple of 10^p to a, ties to the even digit.
RoundAt(a, p) ==
    IF IsZero(a) \/ a[2] >= p THEN a
    ELSE LET shift == p - a[2]
         IN  IF shift > 8 THEN Zero
             ELSE LET unit == Pow10(shift)
                      k == a[1] \div unit
                      rem == a[1] % unit
                      up == (2 * rem > unit) \/ (2 * rem = unit /\ k % 2 = 1)
                  IN  Norm(IF up THEN k + 1 ELSE k, p)

\* round(x, ndigits) of a float.
Round(x, ndigits) == RoundAt(x, 0 - ndigits)

(***************************************************************************)
(* math.exp on a double.                                                   *)
(*                                                                         *)
(* The argument is the quotient num / den of two ints (den >= 1), as the   *)
(* scorer passes it.  e^x is built from e^(+-1) by squaring and from the   *)
(* series of e^(r/den) for the fractional part; then the double's range is *)
(* applied: above the largest double math.exp raises OverflowError, below  *)
(* the smallest normal double the result is rounded to the subnormal grid, *)
(* which takes it to 0.0 from about e^-745.13 on.  Arguments far outside   *)
(* the range (above 710, below -746) are settled before any arithmetic.    *)
(***************************************************************************)
EulerE == <<27182818, -7>>

EulerInv == <<36787944, -8>>

DblMax == <<17976931, 301>>

DblMinNormal == <<22250738, -315>>

DblMinSubnormal == <<49406565, -331>>

DblInvMinSubnormal == <<20240225, 316>>

RECURSIVE ExpSeries(_, _, _, _)
\* The sum of the series of e^(r/den) from term number k on, term being
\* term number k - 1; a term below 10^-9 ends it.
ExpSeries(r, den, k, term) ==
    IF FLess(term, <<10000000, -16>>) THEN Zero
    ELSE FAdd(term,
              ExpSeries(r, den, k + 1, FDivInt(FMul(term, FInt(r)), den * k)))

\* e^(num/den) before the double's range is applied: with |num| = q * den + r,
\* e^q * e^(r/den), or for a negative argument e^-(q+1) * e^((den-r)/den).
ExpReal(num, den) ==
    LET a == IF num >= 0 THEN num ELSE 0 - num
        q == a \div den
        r == a % den
    IN  IF num >= 0 THEN FMul(FPow(EulerE, q), ExpSeries(r, den, 1, One))
        ELSE IF r = 0 THEN FPow(EulerInv, q)
        ELSE FMul(FPow(EulerInv, q + 1), ExpSeries(den - r, den, 1, One))

\* A positive value below the normal range, as the double nearest to it.
Subnormal(v) ==
    FMul(RoundAt(FMul(v, DblInvMinSubnormal), 0), DblMinSubnormal)

Return(v) == [kind |-> "return", value |-> v]

Raise(exc, msg) == [kind |-> "raise", exc |-> exc, msg |-> msg]

Returned(res) == res.kind = "return"

Raised(res) == res.kind = "raise"

MathExp(num, den) ==
    IF num > 710 * den THEN Raise("OverflowError", "math range error")
    ELSE IF num < (0 - 746) * den THEN Return(Zero)
    ELSE LET v == ExpReal(num, den)
         IN  IF FLess(DblMax, v)
             THEN Raise("OverflowError", "math range error")
             ELSE IF FLess(v, DblMinNormal) THEN Return(Subnormal(v))
             ELSE Return(v)

(***************************************************************************)
(* datetime.                                                               *)
(*                                                                         *)
(* Time is counted in hours.  A datetime is its wall-clock reading (hours  *)
(* since an epoch, as its date and time fields show it) and its tzinfo: a  *)
(* naive datetime has none, an aware one has a UTC offset.  A timestamp    *)
(* string is the wall-clock reading it spells and its suffix: none, "Z",   *)
(* or an offset "+hh:mm"; a string that is no ISO date-time is malformed.  *)
(***************************************************************************)
TicksPerDay == 24

None == [type |-> "NoneType"]

Datetime(wall, aware, utcoffset) ==
    [type |-> "datetime", wall |-> wall, aware |-> aware,
     utcoffset |-> utcoffset]

Str(wall, suffix, utcoffset) ==
    [type |-> "str", wellformed |-> TRUE, wall |-> wall, suffix |-> suffix,
     utcoffset |-> utcoffset]

Malformed == [type |-> "str", wellformed |-> FALSE, wall |-> 0,
              suffix |-> "", utcoffset |-> 0]

\* timestamp.replace('Z', '+00:00')
ReplaceZ(ts) ==
    IF ts.suffix = "Z" THEN [ts EXCEPT !.suffix = "+hh:mm", !.utcoffset = 0]
    ELSE ts

\* datetime.fromisoformat(s): the fields of the string as a datetime, aware
\* when the string carries an offset.  A bare "Z" suffix is not read here:
\* the scorer replaces it first, for the interpreters that refuse it.
FromIsoformat(s) ==
    IF ~s.wellformed \/ s.suffix = "Z"
    THEN Raise("ValueError", "Invalid isoformat string")
    ELSE Return(Datetime(s.wall, s.suffix # "", s.utcoffset))

\* dt.replace(tzinfo=None): the same fields, no tzinfo.
ReplaceTzinfoNone(dt) == Datetime(dt.wall, FALSE, 0)

\* a - b of two datetimes, in hours: the difference of the readings when
\* both are naive, of the instants when both are aware, and a TypeError when
\* one is naive and the other aware.
DatetimeSub(a, b) ==
    IF a.aware # b.aware
    THEN Raise("TypeError",
               "can't subtract offset-naive and offset-aware datetimes")
    ELSE Return((a.wall - a.utcoffset) - (b.wall - b.utcoffset))

\* Variant: the days counted with both ends included.
TimedeltaDays_inclusive(delta) == delta \div TicksPerDay + 1

\* timedelta.days: a timedelta keeps 0 <= seconds < one day, so its days are
\* the floor of the difference.
TimedeltaDays(delta) == delta \div TicksPerDay

(***************************************************************************)
(* RelevanceScorer.  self is the record of the four fields __init__ sets.  *)
(* Each method gives Return(value) or Raise(exception).                    *)
(***************************************************************************)
RelevanceScorer(base_weight, recency_weight, decay_days, default_engagement) ==
    [base_weight |-> base_weight, recency_weight |-> recency_weight,
     decay_days |-> decay_days, default_engagement |-> default_engagement]

\* Variant: a rank that is not positive is taken as rank 1 instead of refused.
base_rank_score_clamped(self, rank) ==
    IF rank <= 0 THEN Return(One) ELSE Return(FDivInt(One, rank))

\* Variant: the rank read as a 0-indexed position.
base_rank_score_zero_indexed(self, rank) ==
    IF rank <= 0 THEN Raise("ValueError", "Rank must be positive")
    ELSE Return(FDivInt(One, rank + 1))

calculate_base_rank_score(self, rank) ==
    IF rank <= 0 THEN Raise("ValueError", "Rank must be positive")
    ELSE Return(FDivInt(One, rank))

\* Variant: a string that parses under neither form read as the epoch.
ParseTimestamp_lenient(timestamp) ==
    IF timestamp.type = "str"
    THEN LET first == FromIsoformat(ReplaceZ(timestamp))
             second == FromIsoformat(timestamp)
         IN  IF Returned(first) THEN first
             ELSE IF Returned(second) THEN second
             ELSE Return(Datetime(0, FALSE, 0))
    ELSE Return(timestamp)

\* The try/except of the parse: the string with its Z replaced, and on
\* ValueError the string as it is, whose error is not caught.
ParseTimestamp(timestamp) ==
    IF timestamp.type = "str"
    THEN LET first == FromIsoformat(ReplaceZ(timestamp))
         IN  IF Raised(first) THEN FromIsoformat(timestamp) ELSE first
    ELSE Return(timestamp)

\* Variant: the timezone information is left on the datetime.
StripTz_kept(dt) == dt

\* Timezone information is dropped from a datetime that has any.
StripTz(dt) == IF dt.aware THEN ReplaceTzinfoNone(dt) ELSE dt

\* (current_date - doc_date).days, both stripped first.
DaysDiff(doc_date, current_date) ==
    LET delta == DatetimeSub(StripTz(current_date), StripTz(doc_date))
    IN  IF Raised(delta) THEN delta ELSE Return(TimedeltaDays(delta.value))

\* Variant: the sign of the exponent lost, so that the score grows with age.
Decay_growing(days_diff, decay_days) ==
    IF decay_days = 0
    THEN Raise("ZeroDivisionError", "division by zero")
    ELSE IF decay_days > 0 THEN MathExp(days_diff, decay_days)
    ELSE MathExp(0 - days_diff, 0 - decay_days)

\* math.exp(-days_diff / self.decay_days)
Decay(days_diff, decay_days) ==
    IF decay_days = 0
    THEN Raise("ZeroDivisionError", "division by zero")
    ELSE IF decay_days > 0 THEN MathExp(0 - days_diff, decay_days)
    ELSE MathExp(days_diff, 0 - decay_days)

\* now is what datetime.now() gives at the call; it is read only when no
\* current_date is passed.
calculate_recency_score(self, timestamp, current_date, now) ==
    LET cur == IF current_date = None THEN now ELSE current_date
        parsed == ParseTimestamp(timestamp)
        days_diff == DaysDiff(parsed.value, cur)
    IN  IF Raised(parsed) THEN parsed
        ELSE IF Raised(days_diff) THEN days_diff
        ELSE Decay(days_diff.value, self.decay_days)

\* Variant: each weight applied to the other component.
relevance_score_weights_swapped(self, rank, timestamp, current_date, now) ==
    LET base_score == calculate_base_rank_score(self, rank)
        recency_score ==
            calculate_recency_score(self, timestamp, current_date, now)
    IN  IF Raised(base_score) THEN base_score
        ELSE IF Raised(recency_score) THEN recency_score
        ELSE Return(FAdd(FMul(self.recency_weight, base_score.value),
                         FMul(self.base_weight, recency_score.value)))

calculate_relevance_score(self, rank, timestamp, current_date, now) ==
    LET base_score == calculate_base_rank_score(self, rank)
        recency_score ==
            calculate_recency_score(self, timestamp, current_date, now)
    IN  IF Raised(base_score) THEN base_score
        ELSE IF Raised(recency_score) THEN recency_score
        ELSE Return(FAdd(FMul(self.base_weight, base_score.value),
                         FMul(self.recency_weight, recency_score.value)))

(***************************************************************************)
(* dict and the objects of a run.                                          *)
(*                                                                         *)
(* A dict is a function from its keys.  heap holds the dicts that exist,   *)
(* each known by its position: two names of one dict are one position, a   *)
(* copy is a new one.                                                      *)
(***************************************************************************)
ScoreKeys ==
    {"base_rank_score", "recency_score", "relevance_score",
     "user_engagement_score"}

\* d.get(key, default)
Get(d, key, default) == IF key \in DOMAIN d THEN d[key] ELSE default

\* d[key] = value
SetItem(d, key, value) == (key :> value) @@ d

\* Variant: no copy made, the caller's dict under a second name.
Copy_aliased(h, document) == [heap |-> h, ref |-> document]

\* document.copy(): a new dict with the same items.
Copy(h, document) == [heap |-> Append(h, h[document]), ref |-> Len(h) + 1]

\* Variant: the scores added to the values the dict already holds.
AddScores_accumulated(self, d, base_rank_score, recency_score, relevance_score) ==
    LET sum(key, v) == Round(FAdd(Get(d, key, Zero), v), 6)
        d1 == SetItem(d, "base_rank_score", sum("base_rank_score", base_rank_score))
        d2 == SetItem(d1, "recency_score", sum("recency_score", recency_score))
        d3 == SetItem(d2, "relevance_score", sum("relevance_score", relevance_score))
    IN  SetItem(d3, "user_engagement_score", self.default_engagement)

\* The four assignments that end enrich_document.
AddScores(self, d, base_rank_score, recency_score, relevance_score) ==
    LET d1 == SetItem(d, "base_rank_score", Round(base_rank_score, 6))
        d2 == SetItem(d1, "recency_score", Round(recency_score, 6))
        d3 == SetItem(d2, "relevance_score", Round(relevance_score, 6))
    IN  SetItem(d3, "user_engagement_score", self.default_engagement)

\* Variant: the scores computed before the timestamp is looked at, so that
\* an invalid rank is reported first.
enrich_document_rank_first(self, h, document, current_date, now) ==
    LET copied == Copy(h, document)
        enriched_doc == copied.ref
        rank == Get(h[document], "rank", 1)
        timestamp == Get(h[document], "timestamp", None)
        base_rank_score == calculate_base_rank_score(self, rank)
        recency_score ==
            calculate_recency_score(self, timestamp, current_date, now)
        relevance_score ==
            calculate_relevance_score(self, rank, timestamp, current_date, now)
        failed(exc) == [heap |-> h, ret |-> exc]
    IN  IF Raised(base_rank_score) THEN failed(base_rank_score)
        ELSE IF timestamp = None
        THEN failed(Raise("ValueError", "Document missing 'timestamp' field"))
        ELSE IF Raised(recency_score) THEN failed(recency_score)
        ELSE IF Raised(relevance_score) THEN failed(relevance_score)
        ELSE [heap |-> [copied.heap EXCEPT ![enriched_doc] =
                            AddScores(self, @, base_rank_score.value,
                                      recency_score.value,
                                      relevance_score.value)],
              ret |-> Return(enriched_doc)]

\* Variant: a validator's error caught, and the copy returned with the
\* scores computed up to the error.
enrich_document_partial(self, h, document, current_date, now) ==
    LET copied == Copy(h, document)
        enriched_doc == copied.ref
        rank == Get(h[document], "rank", 1)
        timestamp == Get(h[document], "timestamp", None)
        base_rank_score == calculate_base_rank_score(self, rank)
        recency_score ==
            calculate_recency_score(self, timestamp, current_date, now)
        relevance_score ==
            calculate_relevance_score(self, rank, timestamp, current_date, now)
        failed(exc) == [heap |-> h, ret |-> exc]
        partial(d) == [heap |-> [copied.heap EXCEPT ![enriched_doc] = d],
                       ret |-> Return(enriched_doc)]
    IN  IF timestamp = None
        THEN failed(Raise("ValueError", "Document missing 'timestamp' field"))
        ELSE IF Raised(base_rank_score) THEN partial(copied.heap[enriched_doc])
        ELSE IF Raised(recency_score) \/ Raised(relevance_score)
        THEN partial(SetItem(copied.heap[enriched_doc], "base_rank_score",
                             Round(base_rank_score.value, 6)))
        ELSE partial(AddScores(self, copied.heap[enriched_doc],
                               base_rank_score.value, recency_score.value,
                               relevance_score.value))

\* Variant: the rank that was scored written into the returned record.
enrich_document_rank_stored(self, h, document, current_date, now) ==
    LET copied == Copy(h, document)
        enriched_doc == copied.ref
        rank == Get(h[document], "rank", 1)
        timestamp == Get(h[document], "timestamp", None)
        base_rank_score == calculate_base_rank_score(self, rank)
        recency_score ==
            calculate_recency_score(self, timestamp, current_date, now)
        relevance_score ==
            calculate_relevance_score(self, rank, timestamp, current_date, now)
        failed(exc) == [heap |-> h, ret |-> exc]
    IN  IF timestamp = None
        THEN failed(Raise("ValueError", "Document missing 'timestamp' field"))
        ELSE IF Raised(base_rank_score) THEN failed(base_rank_score)
        ELSE IF Raised(recency_score) THEN failed(recency_score)
        ELSE IF Raised(relevance_score) THEN failed(relevance_score)
        ELSE [heap |-> [copied.heap EXCEPT ![enriched_doc] =
                            SetItem(AddScores(self, @, base_rank_score.value,
                                              recency_score.value,
                                              relevance_score.value),
                                    "rank", rank)],
              ret |-> Return(enriched_doc)]

\* enrich_document on the dict at position document of heap h: the heap
\* after the call and what the call gives, the position of the enriched dict
\* or the exception.  A copy the call does not return is dropped with the
\* call's frame.
enrich_document(self, h, document, current_date, now) ==
    LET copied == Copy(h, document)
        enriched_doc == copied.ref
        rank == Get(h[document], "rank", 1)
        timestamp == Get(h[document], "timestamp", None)
        base_rank_score == calculate_base_rank_score(self, rank)
        recency_score ==
            calculate_recency_score(self, timestamp, current_date, now)
        relevance_score ==
            calculate_relevance_score(self, rank, timestamp, current_date, now)
        failed(exc) == [heap |-> h, ret |-> exc]
    IN  IF timestamp = None
        THEN failed(Raise("ValueError", "Document missing 'timestamp' field"))
        ELSE IF Raised(base_rank_score) THEN failed(base_rank_score)
        ELSE IF Raised(recency_score) THEN failed(recency_score)
        ELSE IF Raised(relevance_score) THEN failed(relevance_score)
        ELSE [heap |-> [copied.heap EXCEPT ![enriched_doc] =
                            AddScores(self, @, base_rank_score.value,
                                      recency_score.value,
                                      relevance_score.value)],
              ret |-> Return(enriched_doc)]

(***************************************************************************)
(* The inputs of the runs.                                                 *)
(***************************************************************************)
MaxRank == 8

MaxObjects == 3

Ranks == (0 - 2) .. MaxRank

\* float(n / 10)
Tenths(n) == FDivInt(FInt(n), 10)

\* The reference time of the demonstrations, 12:00 on some day.
RefWall == 9000 * TicksPerDay + 12

Days(n) == n * TicksPerDay

\* Ages of a document at RefWall, in hours: around the reference, one and
\* two decay periods back, and far enough on either side to leave the
\* double's range with decay_days 1 or 30.
NearAges == {0 - 25, 0 - 1, 0, 1, 23, 24, Days(30), Days(60)}

FarAges == {Days(745), Days(746), Days(22349), Days(22350), 0 - Days(21300)}

TimestampStrings ==
    {Str(RefWall - a, "", 0) : a \in NearAges \cup FarAges}
    \cup {Str(RefWall - a, "Z", 0) : a \in NearAges}
    \cup {Str(RefWall - a, "+hh:mm", 5) : a \in NearAges}
    \cup {Malformed}

Timestamps ==
    TimestampStrings
    \cup {Datetime(RefWall - 23, FALSE, 0), Datetime(RefWall - 23, TRUE, 5)}

CurrentDates ==
    {Datetime(RefWall, FALSE, 0), Datetime(RefWall, TRUE, 0 - 8), None}

\* What datetime.now() gives during a run.
Now == Datetime(RefWall, FALSE, 0)

\* The weights of demo_weight_comparison, in tenths.
WeightConfigs == {<<8, 2>>, <<6, 4>>, <<5, 5>>, <<3, 7>>, <<2, 8>>}

DefaultScorer == RelevanceScorer(Tenths(6), Tenths(4), 30, Tenths(5))

\* No pipeline is running, and no call is under way outside the one an
\* action makes.
Idle == [pc |-> "idle"]

(***************************************************************************)
(* Calls.  hist holds the latest calls of the run, oldest first, each with *)
(* its arguments, the heap it started from and what it gave.               *)
(***************************************************************************)
Call(op, args, pre, ret) == [op |-> op, args |-> args, pre |-> pre, ret |-> ret]

\* The calls a run keeps when it makes one more and remembers `window`.
Keep(window) == IF Len(hist) < window THEN hist ELSE Tail(hist)

\* The latest call.
Latest == hist[Len(hist)]

BaseRankCall(rank, kept) ==
    /\ hist' = Append(kept, Call("calculate_base_rank_score", [rank |-> rank],
                                 heap, calculate_base_rank_score(scorer, rank)))
    /\ UNCHANGED <<scorer, heap, run, frames>>

RecencyCall(timestamp, current_date, kept) ==
    /\ hist' = Append(kept, Call("calculate_recency_score",
                                 [timestamp |-> timestamp,
                                  current_date |-> current_date], heap,
                                 calculate_recency_score(scorer, timestamp,
                                                         current_date, Now)))
    /\ UNCHANGED <<scorer, heap, run, frames>>

RelevanceCall(rank, timestamp, current_date, kept) ==
    /\ hist' = Append(kept, Call("calculate_relevance_score",
                                 [rank |-> rank, timestamp |-> timestamp,
                                  current_date |-> current_date], heap,
                                 calculate_relevance_score(scorer, rank,
                                     timestamp, current_date, Now)))
    /\ UNCHANGED <<scorer, heap, run, frames>>

EnrichCall(document, current_date, kept) ==
    \E done \in {enrich_document(scorer, heap, document, current_date, Now)} :
        /\ Len(done.heap) <= MaxObjects
        /\ heap' = done.heap
        /\ hist' = Append(kept, Call("enrich_document",
                                     [document |-> document,
                                      current_date |-> current_date], heap,
                                     done.ret))
        /\ UNCHANGED <<scorer, run, frames>>

(***************************************************************************)
(* SpecRank: calculate_base_rank_score called on any ranks, the latest two *)
(* calls kept.                                                             *)
(***************************************************************************)
InitRank ==
    /\ scorer = DefaultScorer /\ heap = <<>> /\ hist = <<>>
    /\ run = Idle /\ frames = <<>>

NextRank == \E rank \in Ranks : BaseRankCall(rank, Keep(2))

SpecRank == InitRank /\ [][NextRank]_vars

(***************************************************************************)
(* SpecRecency: calculate_recency_score called on any timestamps and       *)
(* reference times, the latest two calls kept; a call changes one of the   *)
(* two arguments of the call before it.                                    *)
(***************************************************************************)
Decays == {1, 30}

InitRecency ==
    /\ scorer \in {RelevanceScorer(Tenths(6), Tenths(4), d, Tenths(5)) :
                     d \in Decays}
    /\ heap = <<>>
    /\ hist = <<>>
    /\ run = Idle /\ frames = <<>>

NextRecency ==
    \E timestamp \in Timestamps, current_date \in CurrentDates :
        /\ hist # <<>> =>
              \/ timestamp = Latest.args.timestamp
              \/ current_date = Latest.args.current_date
        /\ RecencyCall(timestamp, current_date, Keep(2))

SpecRecency == InitRecency /\ [][NextRecency]_vars

(***************************************************************************)
(* SpecDemo: the loop body of demo_rank_comparison, for any rank,          *)
(* timestamp, reference time and weights: the three scores of one input,   *)
(* each from its own call.                                                 *)
(***************************************************************************)
DemoTimestamps ==
    {Str(RefWall - a, "", 0) : a \in NearAges \cup FarAges} \cup {Malformed}

DemoDates == {Datetime(RefWall, FALSE, 0), None}

InitDemo ==
    /\ scorer \in {RelevanceScorer(Tenths(w[1]), Tenths(w[2]), 30, Tenths(5)) :
                     w \in WeightConfigs}
    /\ heap = <<>>
    /\ hist = <<>>
    /\ run = Idle /\ frames = <<>>

DemoBase ==
    /\ Len(hist) \in {0, 3}
    /\ \E rank \in Ranks : BaseRankCall(rank, <<>>)

DemoRecency ==
    /\ Len(hist) = 1
    /\ \E timestamp \in DemoTimestamps, current_date \in DemoDates :
          RecencyCall(timestamp, current_date, hist)

DemoRelevance ==
    /\ Len(hist) = 2
    /\ RelevanceCall(hist[1].args.rank, hist[2].args.timestamp,
                     hist[2].args.current_date, hist)

NextDemo == DemoBase \/ DemoRecency \/ DemoRelevance

SpecDemo == InitDemo /\ [][NextDemo]_vars

(***************************************************************************)
(* Spec: enrich_document called on a caller's document and on the dicts    *)
(* earlier calls returned, the latest two calls kept.                      *)
(***************************************************************************)
EnrichTimestamps ==
    {Str(RefWall, "", 0), Str(RefWall - Days(30) - 2, "Z", 0),
     Str(RefWall - Days(60), "+hh:mm", 5), Str(RefWall + 1, "", 0),
     Malformed, None}

EnrichDates == {Datetime(RefWall, FALSE, 0), Datetime(RefWall + Days(7), TRUE, 0)}

Title == [k \in {"title"} |-> "Latest Breaking News"]

\* Score fields a document may carry from an earlier enrichment.
StaleScores ==
    {<<>>,
     [k \in {"relevance_score"} |-> FInt(9)],
     [k \in ScoreKeys |-> Tenths(7)]}

Documents ==
    {Title @@ r @@ t @@ st :
        r \in {<<>>} \cup {[k \in {"rank"} |-> n] : n \in {0, 1, 5}},
        t \in {<<>>} \cup {[k \in {"timestamp"} |-> x] : x \in EnrichTimestamps},
        st \in StaleScores}

Scorers == {DefaultScorer, RelevanceScorer(Tenths(8), Tenths(2), 7, Tenths(9))}

Init ==
    /\ scorer \in Scorers
    /\ heap \in {<<d>> : d \in Documents}
    /\ hist = <<>>
    /\ run = Idle /\ frames = <<>>

Next ==
    \E document \in 1 .. Len(heap), current_date \in EnrichDates :
        EnrichCall(document, current_date, Keep(2))

Spec == Init /\ [][Next]_vars

(***************************************************************************)
(* SpecBatch: RankingDataPreparation.run, one action per step of the       *)
(* pipeline.  run holds the pipeline's position and locals, and the        *)
(* Elasticsearch index and the exported file it works on: index is the     *)
(* documents of the index, the _id of each its position.                   *)
(***************************************************************************)
MaxDocs == 3
BatchSize == 10

\* One turn of the loop of process_documents, given what enrich_document
\* did: an enrichment that returns is appended, one that raises anything is
\* counted.
ProcessOne(done, enriched_docs, failed_count) ==
    [heap |-> done.heap,
     enriched_docs |-> IF Returned(done.ret)
                       THEN Append(enriched_docs, done.ret.value)
                       ELSE enriched_docs,
     failed_count |-> IF Returned(done.ret) THEN failed_count
                      ELSE failed_count + 1]

\* Variant: a document that fails to enrich is kept, unscored, in the output.
RECURSIVE ProcessLoop_unscored_kept(_, _, _, _, _, _)
ProcessLoop_unscored_kept(self, h, documents, current_date, enriched_docs, failed_count) ==
    IF documents = <<>>
    THEN [heap |-> h, enriched_docs |-> enriched_docs,
          failed_count |-> failed_count]
    ELSE LET done == enrich_document(self, h, Head(documents), current_date,
                                     current_date)
         IN  IF Returned(done.ret)
             THEN ProcessLoop_unscored_kept(self, done.heap, Tail(documents),
                      current_date, Append(enriched_docs, done.ret.value),
                      failed_count)
             ELSE ProcessLoop_unscored_kept(self, done.heap, Tail(documents),
                      current_date, Append(enriched_docs, Head(documents)),
                      failed_count + 1)

\* The loop of process_documents over the documents left.
RECURSIVE ProcessLoop(_, _, _, _, _, _)
RECURSIVE ProcessRest(_, _, _, _)
ProcessRest(self, documents, current_date, turn) ==
    ProcessLoop(self, turn.heap, documents, current_date, turn.enriched_docs,
                turn.failed_count)

ProcessLoop(self, h, documents, current_date, enriched_docs, failed_count) ==
    IF documents = <<>>
    THEN [heap |-> h, enriched_docs |-> enriched_docs,
          failed_count |-> failed_count]
    ELSE ProcessRest(self, Tail(documents), current_date,
             ProcessOne(enrich_document(self, h, Head(documents),
                                        current_date, current_date),
                        enriched_docs, failed_count))

process_documents(self, h, documents, current_date) ==
    ProcessLoop(self, h, documents, current_date, <<>>, 0)

\* The update body of update_elasticsearch: the four scores of a document.
UpdateBody(doc) == [k \in ScoreKeys |-> doc[k]]

\* update_elasticsearch: the index after the updates and the number of them
\* that succeeded; refused is the set of _ids whose update the server
\* refuses.  Every fetched document carries its _id.
RECURSIVE UpdateLoop(_, _, _, _, _)
UpdateLoop(h, index, documents, refused, success_count) ==
    IF documents = <<>>
    THEN [index |-> index, success_count |-> success_count]
    ELSE LET doc == h[Head(documents)]
             doc_id == Get(doc, "_id", 0)
         IN  IF doc_id = 0 \/ doc_id \in refused
             THEN UpdateLoop(h, index, Tail(documents), refused, success_count)
             ELSE UpdateLoop(h, [index EXCEPT ![doc_id] = UpdateBody(doc) @@ @],
                             Tail(documents), refused, success_count + 1)

update_elasticsearch(h, index, documents, refused) ==
    UpdateLoop(h, index, documents, refused, 0)

\* The line save_to_jsonl writes for a document in the structured format.
DocToSave(doc) == [k \in DOMAIN doc \ {"_id"} |-> doc[k]]

\* The documents an index may hold.
IndexDocuments ==
    {Title @@ r @@ t :
        r \in {[k \in {"rank"} |-> n] : n \in {0, 1, 5}},
        t \in {<<>>} \cup {[k \in {"timestamp"} |-> x] :
                  x \in {Str(RefWall - Days(30) - 2, "Z", 0), Malformed}}}

GoodDocument ==
    Title @@ [k \in {"rank"} |-> 5]
          @@ [k \in {"timestamp"} |-> Str(RefWall - Days(30) - 2, "Z", 0)]

BadDocument ==
    Title @@ [k \in {"rank"} |-> 5] @@ [k \in {"timestamp"} |-> Malformed]

\* Indexes of up to MaxDocs documents, and the indexes of BatchSize
\* documents of which one has a malformed timestamp.
Indexes ==
    UNION {[1 .. n -> IndexDocuments] : n \in 0 .. MaxDocs}
    \cup {[i \in 1 .. BatchSize |-> IF i = bad THEN BadDocument ELSE GoodDocument] :
             bad \in 1 .. BatchSize}

\* RankingDataPreparation(): the scorer, and current_date read once.
InitBatch ==
    /\ scorer = DefaultScorer
    /\ heap = <<>>
    /\ hist = <<>>
    /\ frames = <<>>
    /\ \E index \in Indexes :
          run = [pc |-> "connect", steps |-> {}, index |-> index,
                 current_date |-> Now, documents |-> <<>>,
                 enriched_docs |-> <<>>, failed_count |-> 0,
                 updated_count |-> 0, file |-> <<>>, result |-> None]

Step(pc, next) ==
    /\ run.pc = pc
    /\ run' = [next EXCEPT !.steps = @ \cup {pc}]
    /\ UNCHANGED <<scorer, hist, frames>>

Finish(r, result) == [r EXCEPT !.pc = "done", !.result = result]

\* run: the connection test.
BatchConnect ==
    \E connected \in BOOLEAN :
        /\ Step("connect", IF connected THEN [run EXCEPT !.pc = "fetch"]
                           ELSE Finish(run, FALSE))
        /\ UNCHANGED heap

\* run, step 1: fetch_all_documents gives every document of the index with
\* its _id, or nothing when the search fails.
BatchFetch ==
    \E fetched \in BOOLEAN :
        LET documents ==
                IF fetched
                THEN [i \in 1 .. Len(run.index) |->
                         run.index[i] @@ [k \in {"_id"} |-> i]]
                ELSE <<>>
        IN  /\ heap' = documents
            /\ Step("fetch",
                    IF documents = <<>> THEN Finish(run, FALSE)
                    ELSE [run EXCEPT !.pc = "process",
                                     !.documents = [i \in 1 .. Len(documents) |-> i]])


\* Variant: the pipeline given up as soon as one document failed.
BatchProcess_halting ==
    \E done \in {process_documents(scorer, heap, run.documents, run.current_date)} :
        /\ heap' = done.heap
        /\ Step("process",
                IF done.enriched_docs = <<>> \/ done.failed_count > 0
                THEN Finish([run EXCEPT !.failed_count = done.failed_count,
                                        !.enriched_docs = done.enriched_docs], FALSE)
                ELSE [run EXCEPT !.pc = "update",
                                 !.enriched_docs = done.enriched_docs,
                                 !.failed_count = done.failed_count])

\* run, step 2: process_documents, and the end of the run when it gives no
\* document.
BatchProcess ==
    \E done \in {process_documents(scorer, heap, run.documents, run.current_date)} :
        /\ heap' = done.heap
        /\ Step("process",
                IF done.enriched_docs = <<>>
                THEN Finish([run EXCEPT !.failed_count = done.failed_count], FALSE)
                ELSE [run EXCEPT !.pc = "update",
                                 !.enriched_docs = done.enriched_docs,
                                 !.failed_count = done.failed_count])

\* The sets of _ids whose update the server may refuse: none, one, all.
RefusedSets(n) == {{}} \cup {{i} : i \in 1 .. n} \cup {1 .. n}

\* run, step 3: update_elasticsearch; no update at all is only a warning.
BatchUpdate ==
    \E refused \in RefusedSets(Len(run.index)) :
        LET done == update_elasticsearch(heap, run.index, run.enriched_docs,
                                         refused)
        IN  /\ Step("update", [run EXCEPT !.pc = "save",
                                          !.index = done.index,
                                          !.updated_count = done.success_count])
            /\ UNCHANGED heap

\* Variant: the outcome of the export not looked at.
BatchSave_unchecked ==
    \E written \in BOOLEAN :
        /\ Step("save",
                IF written
                THEN Finish([run EXCEPT !.file =
                                [i \in 1 .. Len(run.enriched_docs) |->
                                    DocToSave(heap[run.enriched_docs[i]])]],
                            TRUE)
                ELSE Finish(run, TRUE))
        /\ UNCHANGED heap

\* run, step 4: save_to_jsonl writes a line per document, or fails.
BatchSave ==
    \E written \in BOOLEAN :
        /\ Step("save",
                IF written
                THEN Finish([run EXCEPT !.file =
                                [i \in 1 .. Len(run.enriched_docs) |->
                                    DocToSave(heap[run.enriched_docs[i]])]],
                            TRUE)
                ELSE Finish(run, FALSE))
        /\ UNCHANGED heap

NextBatch ==
    BatchConnect \/ BatchFetch \/ BatchProcess \/ BatchUpdate \/ BatchSave

SpecBatch == InitBatch /\ [][NextBatch]_vars

(***************************************************************************)
(* SpecConvert: the two converters of the exported training file, run in   *)
(* any order on the files of the output directory.  run.files holds the    *)
(* files that exist, each a sequence of lines.                             *)
(*                                                                         *)
(* A line is the JSON text of an object, or text that is no JSON.  In JSON *)
(* text a float is spelled by its shortest decimal form, which reads back  *)
(* as the same float; str() and an f-string spell it the same way.         *)
(***************************************************************************)
MaxLines == 2

RECURSIVE StripZeros(_, _)
\* The digits of m * 10^e without trailing zeros.
StripZeros(m, e) ==
    IF m # 0 /\ m % 10 = 0 THEN StripZeros(m \div 10, e + 1) ELSE <<m, e>>

\* str(x) of a float and of an int.
FloatStr(x) == [repr |-> "float", text |-> StripZeros(x[1], x[2])]
IntStr(n) == [repr |-> "int", text |-> n]

\* float(s) of the decimal form of a float.
ParseFloat(s) == Norm(s.text[1], s.text[2])

\* json.dumps of a dict whose score fields are floats, and json.loads of a
\* line.
JsonDumps(d) ==
    [valid |-> TRUE,
     members |-> [k \in DOMAIN d |->
                     IF k \in ScoreKeys THEN FloatStr(d[k]) ELSE d[k]]]

InvalidLine == [valid |-> FALSE, members |-> <<>>]

JsonLoads(line) ==
    IF line.valid
    THEN Return([k \in DOMAIN line.members |->
                    IF k \in ScoreKeys THEN ParseFloat(line.members[k])
                    ELSE line.members[k]])
    ELSE Raise("JSONDecodeError", "Expecting value")

required_fields ==
    {"query", "category", "title", "rank", "recency_score",
     "user_engagement_score", "relevance_score"}

\* The prompt both converters assemble: the text is fixed but for the six
\* fields it spells.
Prompt(data) ==
    [query |-> data["query"], category |-> data["category"],
     title |-> data["title"], rank |-> IntStr(data["rank"]),
     recency_score |-> FloatStr(data["recency_score"]),
     user_engagement_score |-> FloatStr(data["user_engagement_score"]),
     instruction |-> "Predict a relevance score between 0 and 1."]

\* Variant: the target written with four decimals.
VertexDoc_four_decimals(data) ==
    [input_text |-> Prompt(data),
     output_text |-> FloatStr(Round(data["relevance_score"], 4))]

\* The record convert_to_vertex_format writes for a structured record.
VertexDoc(data) ==
    [input_text |-> Prompt(data),
     output_text |-> FloatStr(data["relevance_score"])]

\* The lines convert_to_vertex_format writes for a line it reads: one, or
\* none when the line is skipped.
VertexLine(line) ==
    LET data == JsonLoads(line)
    IN  IF Raised(data) THEN <<>>
        ELSE IF ~(required_fields \subseteq DOMAIN data.value) THEN <<>>
        ELSE <<JsonDumps(VertexDoc(data.value))>>

\* The two-turn record of the Gemini format.
GeminiDoc(input_text, output_text) ==
    [contents |-> <<[role |-> "user", parts |-> <<[text |-> input_text]>>],
                    [role |-> "model", parts |-> <<[text |-> output_text]>>]>>]

\* The lines convert_to_gemini_format writes for a line it reads.
GeminiLine(line) ==
    LET data == JsonLoads(line)
    IN  IF Raised(data) THEN <<>>
        ELSE IF {"input_text", "output_text"} \subseteq DOMAIN data.value
        THEN <<JsonDumps(GeminiDoc(data.value["input_text"],
                                   data.value["output_text"]))>>
        ELSE IF ~(required_fields \subseteq DOMAIN data.value) THEN <<>>
        ELSE <<JsonDumps(GeminiDoc(Prompt(data.value),
                                   FloatStr(data.value["relevance_score"])))>>

RECURSIVE Flatten(_)
Flatten(seqs) ==
    IF seqs = <<>> THEN <<>> ELSE Head(seqs) \o Flatten(Tail(seqs))

\* What a converter gives: the files after it, whether it ran, the file it
\* read and its two counts.
Converted(files, ok, read, lines, written) ==
    [files |-> files,
     ret |-> Return([ok |-> ok, read |-> read, written |-> written,
                     converted_count |-> Len(written),
                     skipped_count |-> Len(lines) - Len(written)])]

convert_to_vertex_format(files, input_file, output_file) ==
    IF input_file \notin DOMAIN files
    THEN Converted(files, FALSE, input_file, <<>>, <<>>)
    ELSE LET lines == files[input_file]
             written == Flatten([i \in 1 .. Len(lines) |-> VertexLine(lines[i])])
         IN  Converted((output_file :> written) @@ files, TRUE, input_file,
                       lines, written)

convert_to_gemini_format(files, input_file, output_file) ==
    LET read == IF input_file \in DOMAIN files THEN input_file
                ELSE "output/ranking_training_data.jsonl"
    IN  IF read \notin DOMAIN files
        THEN Converted(files, FALSE, read, <<>>, <<>>)
        ELSE LET lines == files[read]
                 written == Flatten([i \in 1 .. Len(lines) |->
                                        GeminiLine(lines[i])])
             IN  Converted((output_file :> written) @@ files, TRUE, read,
                           lines, written)

StructuredFile == "output/ranking_training_data.jsonl"
VertexFile == "output/vertex_ready.jsonl"
GeminiFile == "output/gemini_ready.jsonl"

\* The structured line of the document an enrichment returned.
Saved(done) == DocToSave(done.heap[done.ret.value])

\* A record as save_to_jsonl writes it in the structured format: a search
\* result enriched by the default scorer.
TrainingRecord(category, rank, age) ==
    Saved(enrich_document(DefaultScorer,
                          <<[query |-> "python tutorial",
                             category |-> category,
                             title |-> "Latest Breaking News", rank |-> rank,
                             timestamp |-> Str(RefWall - age, "Z", 0)]>>,
                          1, Now, Now))

TrainingRecords ==
    {TrainingRecord(category, rank, age) :
        category \in {"video", "article"}, rank \in {1, 5},
        age \in {0 - 1, Days(30)}}

\* Records that lack a required field.
Without(d, key) == [k \in DOMAIN d \ {key} |-> d[k]]

IncompleteRecords(records) ==
    {Without(d, key) :
        d \in {r \in records : r["category"] = "article" /\ r["rank"] = 5},
        key \in {"query", "relevance_score"}}

\* The lines of a structured file: records, records that lack a field, and
\* a line that is no JSON.
LinesOf(records) ==
    {JsonDumps(d) : d \in records \cup IncompleteRecords(records)}
    \cup {InvalidLine}

TrainingLines == LinesOf(TrainingRecords)

TrainingFiles == UNION {[1 .. n -> TrainingLines] : n \in 0 .. MaxLines}

InitConvert ==
    /\ scorer = DefaultScorer
    /\ heap = <<>>
    /\ hist = <<>>
    /\ frames = <<>>
    /\ \E lines \in TrainingFiles :
          run = [pc |-> "convert", files |-> (StructuredFile :> lines)]

ConvertCall(op, input_file, output_file, done) ==
    /\ run' = [run EXCEPT !.files = done.files]
    /\ hist' = Append(Keep(2), Call(op, [input_file |-> input_file,
                                         output_file |-> output_file],
                                    heap, done.ret))
    /\ UNCHANGED <<scorer, heap, frames>>

\* python convert_to_vertex_format.py
ConvertVertex ==
    ConvertCall("convert_to_vertex_format", StructuredFile, VertexFile,
                convert_to_vertex_format(run.files, StructuredFile, VertexFile))

\* python convert_to_gemini_format.py [--input ...]
ConvertGemini ==
    \E input_file \in {VertexFile, StructuredFile} :
        ConvertCall("convert_to_gemini_format", input_file, GeminiFile,
                    convert_to_gemini_format(run.files, input_file, GeminiFile))

NextConvert == ConvertVertex \/ ConvertGemini

SpecConvert == InitConvert /\ [][NextConvert]_vars

(***************************************************************************)
(* SpecQuery: process_query, the pipeline of one search query.  The        *)
(* results fetched are structured into documents, each with its 1-based    *)
(* rank within its category and the UTC time of its structuring; the       *)
(* documents are scored against the local time read after that, and the    *)
(* scored documents are indexed.  run.succeeded counts the calls of        *)
(* enrich_document that returned; run.reports holds the reports printed    *)
(* that count scored documents, each with the count it prints.             *)
(***************************************************************************)
MaxItems == 3

\* Search results, by what their pagemap holds.
Items ==
    {[title |-> "Latest Breaking News", pagemap |-> p, position |-> 0] :
        p \in {{"videoobject"}, {"newsarticle"}, {},
               {"videoobject", "article"}}}

\* Variant: the article tags looked for before the video tag.
classify_item_article_first(item) ==
    IF item.pagemap \cap {"article", "blogposting", "newsarticle"} # {}
    THEN "article"
    ELSE IF "videoobject" \in item.pagemap THEN "video"
    ELSE "None"

\* ResultParser._classify_item
classify_item(item) ==
    IF "videoobject" \in item.pagemap THEN "video"
    ELSE IF item.pagemap \cap {"article", "blogposting", "newsarticle"} # {}
    THEN "article"
    ELSE "None"

\* categorize_results: the videos, and as articles everything else.
categorize_results(items) ==
    [videos |-> SelectSeq(items, LAMBDA item : classify_item(item) = "video"),
     articles |-> SelectSeq(items, LAMBDA item : classify_item(item) # "video")]

\* Variant: the rank stored as the 0-based position the loop counts.
structure_json_document_zero_based(item, query, category, rank, utcnow) ==
    [query |-> query, category |-> category, title |-> item.title,
     source |-> "google", rank |-> rank - 1,
     timestamp |-> Str(utcnow, "Z", 0)]

\* ResultParser.structure_json_document; utcnow is what datetime.utcnow()
\* gives at the call, spelled by isoformat() + 'Z'.
structure_json_document(item, query, category, rank, utcnow) ==
    [query |-> query, category |-> category, title |-> item.title,
     source |-> "google", rank |-> rank,
     timestamp |-> Str(utcnow, "Z", 0)]

\* Step 3 of process_query: the videos, then the articles, each with rank
\* i + 1 of its enumerate index i.
StructureAll(videos, articles, query, utcnow) ==
    [i \in 1 .. Len(videos) |->
        structure_json_document(videos[i], query, "video", (i - 1) + 1, utcnow)]
    \o [i \in 1 .. Len(articles) |->
        structure_json_document(articles[i], query, "article", (i - 1) + 1,
                                utcnow)]

\* One turn of the scoring loop, given what enrich_document did: the
\* enriched document is appended, or on any exception the document itself.
ScoreOne(done, doc, scored_docs, succeeded) ==
    [heap |-> done.heap,
     scored_docs |-> Append(scored_docs,
                            IF Returned(done.ret) THEN done.ret.value ELSE doc),
     succeeded |-> IF Returned(done.ret) THEN succeeded + 1 ELSE succeeded]

\* The scoring loop of step 4 over the documents left.
RECURSIVE ScoreLoop(_, _, _, _, _, _)
RECURSIVE ScoreRest(_, _, _, _)
ScoreRest(self, documents, current_date, turn) ==
    ScoreLoop(self, turn.heap, documents, current_date, turn.scored_docs,
              turn.succeeded)

ScoreLoop(self, h, documents, current_date, scored_docs, succeeded) ==
    IF documents = <<>>
    THEN [heap |-> h, scored_docs |-> scored_docs, succeeded |-> succeeded]
    ELSE ScoreRest(self, Tail(documents), current_date,
             ScoreOne(enrich_document(self, h, Head(documents), current_date,
                                      current_date),
                      Head(documents), scored_docs, succeeded))

\* A report that counts documents: its text and the N it prints.
Report(text, n) == [text |-> text, N |-> n]

\* The UTC offsets of the machine's local time, in hours.
UtcOffsets == {0 - 8, 0, 5}

\* Hours that pass between the structuring and datetime.now() of step 4.
Elapsed == {0, 1}

InitQuery ==
    /\ scorer = DefaultScorer
    /\ heap = <<>>
    /\ hist = <<>>
    /\ frames = <<>>
    /\ \E items \in UNION {[1 .. n -> Items] : n \in 0 .. MaxItems},
          utcoffset \in UtcOffsets :
          run = [pc |-> "fetch", steps |-> {}, query |-> "python tutorial",
                 raw_results |-> [i \in 1 .. Len(items) |->
                                     [items[i] EXCEPT !.position = i]],
                 utcoffset |-> utcoffset,
                 utcnow |-> RefWall, videos |-> <<>>, articles |-> <<>>,
                 structured_docs |-> <<>>, scored_docs |-> <<>>,
                 succeeded |-> 0, reports |-> <<>>, result |-> None]

\* Step 1: fetch_google_results gives the results or raises.
QueryFetch ==
    \E fetched \in BOOLEAN :
        /\ Step("fetch", IF fetched THEN [run EXCEPT !.pc = "structure"]
                         ELSE Finish(run, FALSE))
        /\ UNCHANGED heap

\* Steps 2 and 3: the results categorized and structured.
QueryStructure ==
    \E categorized \in {categorize_results(run.raw_results)} :
        /\ heap' = StructureAll(categorized.videos, categorized.articles,
                                run.query, run.utcnow)
        /\ Step("structure",
                [run EXCEPT !.pc = "score",
                            !.videos = categorized.videos,
                            !.articles = categorized.articles,
                            !.structured_docs =
                                [i \in 1 .. Len(run.raw_results) |-> i]])

\* Step 4: the scorer of process_query, the local time, the loop and its
\* report.
QueryScore ==
    \E elapsed \in Elapsed :
        \E done \in {ScoreLoop(scorer, heap, run.structured_docs,
                               Datetime(run.utcnow + elapsed + run.utcoffset,
                                        FALSE, 0),
                               <<>>, 0)} :
            /\ heap' = done.heap
            /\ Step("score",
                    [run EXCEPT !.pc = "index",
                                !.scored_docs = done.scored_docs,
                                !.succeeded = done.succeeded,
                                !.reports = Append(@,
                                    Report("Computed scores for N documents",
                                           Len(done.scored_docs)))])

\* Step 5: index_to_elastic, and the report of a success.
QueryIndex ==
    \E success \in BOOLEAN :
        /\ Step("index",
                IF success
                THEN Finish([run EXCEPT !.reports = Append(@,
                                Report("Indexed N documents with relevance scores",
                                       Len(run.scored_docs)))],
                            TRUE)
                ELSE Finish(run, FALSE))
        /\ UNCHANGED heap

NextQuery == QueryFetch \/ QueryStructure \/ QueryScore \/ QueryIndex

SpecQuery == InitQuery /\ [][NextQuery]_vars

(***************************************************************************)
(* SpecConcurrent: calls of enrich_document on one scorer, made by         *)
(* threads that run at once.  frames holds the frame of each call: where   *)
(* it stands and its local names.  A call runs statement by statement and  *)
(* the threads' statements interleave in any order; self and the dicts of  *)
(* the heap are what the threads share.  run keeps the scorer and the heap *)
(* as they were before the calls.                                          *)
(***************************************************************************)
MaxThreads == 2

\* The frame of enrich_document(document, current_date) at its entry.
Frame(document, current_date) ==
    [pc |-> "copy", document |-> document, current_date |-> current_date,
     enriched_doc |-> 0, rank |-> 0, timestamp |-> None,
     base_rank_score |-> Zero, recency_score |-> Zero,
     relevance_score |-> Zero, ret |-> None]

\* What a statement leaves: the scorer, the heap and the frame after it.
After(self, h, f) == [self |-> self, heap |-> h, frame |-> f]

\* A frame left by an exception.
Unwound(f, exc) == [f EXCEPT !.pc = "done", !.ret = exc]

\* The frame after a score is computed: the score bound to its name, or the
\* frame left by the exception.
Bound(f, name, score, pc) ==
    IF Raised(score) THEN Unwound(f, score)
    ELSE [f EXCEPT ![name] = score.value, !.pc = pc]

\* enriched_doc = document.copy()
CopyStep(self, h, f) ==
    After(self, Copy(h, f.document).heap,
          [f EXCEPT !.pc = "read", !.enriched_doc = Copy(h, f.document).ref])

\* rank and timestamp read from the document, and the check of timestamp.
ReadStep(self, h, f) ==
    After(self, h,
          IF Get(h[f.document], "timestamp", None) = None
          THEN Unwound(f, Raise("ValueError",
                                "Document missing 'timestamp' field"))
          ELSE [f EXCEPT !.pc = "base",
                         !.rank = Get(h[f.document], "rank", 1),
                         !.timestamp = Get(h[f.document], "timestamp", None)])

BaseStep(self, h, f) ==
    After(self, h,
          Bound(f, "base_rank_score",
                calculate_base_rank_score(self, f.rank), "recency"))

\* Variant: the recency score kept on the scorer by the first call that
\* computes one, and read back by the calls after it.
RecencyStep_memoized(self, h, f) ==
    IF "recency_memo" \in DOMAIN self
    THEN After(self, h, Bound(f, "recency_score", self.recency_memo,
                              "relevance"))
    ELSE After(("recency_memo" :>
                    calculate_recency_score(self, f.timestamp, f.current_date,
                                            f.current_date)) @@ self,
               h,
               Bound(f, "recency_score",
                     calculate_recency_score(self, f.timestamp, f.current_date,
                                             f.current_date),
                     "relevance"))

RecencyStep(self, h, f) ==
    After(self, h,
          Bound(f, "recency_score",
                calculate_recency_score(self, f.timestamp, f.current_date,
                                        f.current_date),
                "relevance"))

RelevanceStep(self, h, f) ==
    After(self, h,
          Bound(f, "relevance_score",
                calculate_relevance_score(self, f.rank, f.timestamp,
                                          f.current_date, f.current_date),
                "assign"))

\* The four assignments and the return.
AssignStep(self, h, f) ==
    After(self,
          [h EXCEPT ![f.enriched_doc] =
              AddScores(self, @, f.base_rank_score, f.recency_score,
                        f.relevance_score)],
          [f EXCEPT !.pc = "done", !.ret = Return(f.enriched_doc)])

\* The documents the threads are given, two to a heap.
SharedHeaps ==
    {<<Title @@ [k \in {"rank"} |-> 1]
             @@ [k \in {"timestamp"} |-> Str(RefWall - Days(30), "Z", 0)],
       Title @@ [k \in {"rank"} |-> 5]
             @@ [k \in {"timestamp"} |-> Str(RefWall - 2, "", 0)]>>,
     <<Title @@ [k \in {"rank"} |-> 5]
             @@ [k \in {"timestamp"} |-> Str(RefWall - Days(7), "+hh:mm", 5)],
       Title @@ [k \in {"rank"} |-> 0]
             @@ [k \in {"timestamp"} |-> Str(RefWall - Days(30), "Z", 0)]>>,
     <<Title @@ [k \in {"timestamp"} |-> Str(RefWall - Days(60), "Z", 0)],
       Title @@ [k \in {"rank"} |-> 5]>>,
     <<Title @@ [k \in {"rank"} |-> 2]
             @@ [k \in {"timestamp"} |-> Str(RefWall - Days(1), "Z", 0)],
       Title @@ [k \in {"rank"} |-> 5]
             @@ [k \in {"timestamp"} |-> Malformed]>>}

InitConcurrent ==
    /\ scorer = DefaultScorer
    /\ hist = <<>>
    /\ heap \in SharedHeaps
    /\ \E n \in 1 .. MaxThreads :
          frames \in [1 .. n -> {Frame(document, Now) :
                                    document \in 1 .. 2}]
    /\ run = [pc |-> "concurrent", scorer0 |-> scorer, heap0 |-> heap]

\* Thread i runs its next statement.
Thread(i, done) ==
    /\ scorer' = done.self
    /\ heap' = done.heap
    /\ frames' = [frames EXCEPT ![i] = done.frame]
    /\ UNCHANGED <<hist, run>>

EnrichCopy ==
    \E i \in DOMAIN frames :
        /\ frames[i].pc = "copy"
        /\ Thread(i, CopyStep(scorer, heap, frames[i]))

EnrichRead ==
    \E i \in DOMAIN frames :
        /\ frames[i].pc = "read"
        /\ Thread(i, ReadStep(scorer, heap, frames[i]))

EnrichBase ==
    \E i \in DOMAIN frames :
        /\ frames[i].pc = "base"
        /\ Thread(i, BaseStep(scorer, heap, frames[i]))

EnrichRecency ==
    \E i \in DOMAIN frames :
        /\ frames[i].pc = "recency"
        /\ Thread(i, RecencyStep(scorer, heap, frames[i]))

EnrichRelevance ==
    \E i \in DOMAIN frames :
        /\ frames[i].pc = "relevance"
        /\ Thread(i, RelevanceStep(scorer, heap, frames[i]))

EnrichAssign ==
    \E i \in DOMAIN frames :
        /\ frames[i].pc = "assign"
        /\ Thread(i, AssignStep(scorer, heap, frames[i]))

NextConcurrent ==
    \/ EnrichCopy
    \/ EnrichRead
    \/ EnrichBase
    \/ EnrichRecency
    \/ EnrichRelevance
    \/ EnrichAssign

SpecConcurrent == InitConcurrent /\ [][NextConcurrent]_vars

(***************************************************************************)
(* SpecFetch: GoogleSearchClient.fetch_google_results, one turn of its     *)
(* loop at a time.  A turn asks the search service for a page and the      *)
(* service answers with an error, with an exception of the request, or     *)
(* with organic results and inline videos.  run.log keeps, for each        *)
(* request made, its start index and the answer it got.                    *)
(***************************************************************************)
RESULTS_PER_PAGE == 10

MaxPages == 3

MaxResults == 2

\* A result of the service: its link, which names it, and whether its rich
\* snippet marks a video.
ServiceResult(link, video) == [link |-> link, video |-> video]

\* The answers the service may give for a page.
PageOf(page, organic, inline) ==
    [kind |-> "page",
     organic_results |->
         [k \in 1 .. Len(organic) |->
             ServiceResult(<<page, "organic", k>>, organic[k])],
     inline_videos |->
         [k \in 1 .. inline |-> ServiceResult(<<page, "inline", k>>, TRUE)]]

Responses(page) ==
    {[kind |-> "error", organic_results |-> <<>>, inline_videos |-> <<>>],
     [kind |-> "raise", organic_results |-> <<>>, inline_videos |-> <<>>]}
    \cup {PageOf(page, organic, inline) :
             organic \in UNION {[1 .. n -> BOOLEAN] : n \in 0 .. MaxResults},
             inline \in 0 .. 1}

\* _convert_serpapi_result
convert_serpapi_result(result, position) ==
    [title |-> "Latest Breaking News", link |-> result.link,
     pagemap |-> IF result.video THEN {"videoobject", "metatags"}
                 ELSE {"metatags"},
     position |-> position]

\* _convert_inline_video
convert_inline_video(video, position) ==
    [title |-> "Latest Breaking News", link |-> video.link,
     pagemap |-> {"videoobject", "metatags"}, position |-> position]

\* The results a page adds, the first of them at global_position: the
\* inline videos of the first page, then the organic results.
PageResults(page, response, global_position) ==
    LET videos == IF response.inline_videos # <<>> /\ page = 0
                  THEN response.inline_videos ELSE <<>>
    IN  [k \in 1 .. Len(videos) |->
            convert_inline_video(videos[k], global_position + (k - 1))]
        \o [k \in 1 .. Len(response.organic_results) |->
               convert_serpapi_result(response.organic_results[k],
                                      global_position + Len(videos) + (k - 1))]

\* The loop is left by break on an error, an exception, or a page with no
\* organic result and no inline video.
Breaks(response) ==
    \/ response.kind = "error"
    \/ response.kind = "raise"
    \/ (response.organic_results = <<>> /\ response.inline_videos = <<>>)

Requested(r, response) ==
    Append(r.log, [start |-> r.page * RESULTS_PER_PAGE, response |-> response])

\* Variant: a page that fails is skipped and the next one requested.
FetchTurn_skipping(r, response) ==
    IF Breaks(response)
    THEN [r EXCEPT !.log = Requested(r, response), !.page = @ + 1]
    ELSE [r EXCEPT !.log = Requested(r, response),
                   !.page = @ + 1,
                   !.all_results =
                       @ \o PageResults(r.page, response, r.global_position),
                   !.global_position =
                       @ + Len(PageResults(r.page, response, r.global_position))]

\* One turn of the loop: the run after page r.page was requested and
\* answered by response.
FetchTurn(r, response) ==
    IF Breaks(response)
    THEN [r EXCEPT !.log = Requested(r, response), !.pc = "fetched"]
    ELSE [r EXCEPT !.log = Requested(r, response),
                   !.page = @ + 1,
                   !.all_results =
                       @ \o PageResults(r.page, response, r.global_position),
                   !.global_position =
                       @ + Len(PageResults(r.page, response, r.global_position))]

\* What the call gives after the loop.
FetchEnd(r) ==
    IF r.all_results = <<>>
    THEN Raise("ValueError", "No search results found for query")
    ELSE Return(r.all_results)

InitFetch ==
    /\ scorer = DefaultScorer
    /\ heap = <<>>
    /\ hist = <<>>
    /\ frames = <<>>
    /\ \E num_pages \in 0 .. MaxPages :
          run = [pc |-> "fetching", steps |-> {}, num_pages |-> num_pages,
                 page |-> 0, all_results |-> <<>>, global_position |-> 1,
                 log |-> <<>>, result |-> None]

\* for page in range(num_pages): one page requested.
FetchPage ==
    /\ run.page < run.num_pages
    /\ \E response \in Responses(run.page) :
          Step("fetching", FetchTurn(run, response))
    /\ UNCHANGED heap

\* The end of the loop, by exhaustion or by break, and the return.
FetchReturn ==
    /\ run.pc = "fetched" \/ (run.pc = "fetching" /\ run.page >= run.num_pages)
    /\ run' = [run EXCEPT !.pc = "done", !.steps = @ \cup {run.pc},
                          !.result = FetchEnd(run)]
    /\ UNCHANGED <<scorer, heap, hist, frames>>

NextFetch == FetchPage \/ FetchReturn

SpecFetch == InitFetch /\ [][NextFetch]_vars

(***************************************************************************)
(* SpecClock: one call of enrich_document, statement by statement, while   *)
(* the machine's clock runs.  When the call is given no current_date, each *)
(* calculate_recency_score inside it reads datetime.now() on its own: the  *)
(* one of the recency statement and the one calculate_relevance_score      *)
(* makes.  run.clock is the clock's reading, in hours.                     *)
(***************************************************************************)
MaxTicks == 2

\* recency_score = self.calculate_recency_score(timestamp, current_date),
\* the clock reading now.
RecencyStepAt(self, h, f, now) ==
    After(self, h,
          Bound(f, "recency_score",
                calculate_recency_score(self, f.timestamp, f.current_date,
                                        now),
                "relevance"))

\* relevance_score = self.calculate_relevance_score(rank, timestamp,
\* current_date), the clock reading now.
RelevanceStepAt(self, h, f, now) ==
    After(self, h,
          Bound(f, "relevance_score",
                calculate_relevance_score(self, f.rank, f.timestamp,
                                          f.current_date, now),
                "assign"))

\* Documents an hour short of, at, and an hour past a whole number of days
\* before RefWall.
ClockDocuments ==
    {Title @@ [k \in {"rank"} |-> rank] @@ [k \in {"timestamp"} |->
                                               Str(RefWall - age, "", 0)] :
        rank \in {1, 5},
        age \in {Days(30) - 1, Days(30), Days(30) + 1, Days(1) - 1, 0}}

InitClock ==
    /\ scorer = DefaultScorer
    /\ hist = <<>>
    /\ \E document \in ClockDocuments : heap = <<document>>
    /\ \E current_date \in {None, Now} : frames = <<Frame(1, current_date)>>
    /\ run = [pc |-> "clock", clock |-> RefWall, ticks |-> 0]

\* An hour passes.
ClockTick ==
    /\ run.ticks < MaxTicks
    /\ frames[1].pc # "done"
    /\ run' = [run EXCEPT !.clock = @ + 1, !.ticks = @ + 1]
    /\ UNCHANGED <<scorer, heap, hist, frames>>

ClockCopy ==
    /\ frames[1].pc = "copy"
    /\ Thread(1, CopyStep(scorer, heap, frames[1]))

ClockRead ==
    /\ frames[1].pc = "read"
    /\ Thread(1, ReadStep(scorer, heap, frames[1]))

ClockBase ==
    /\ frames[1].pc = "base"
    /\ Thread(1, BaseStep(scorer, heap, frames[1]))

ClockRecency ==
    /\ frames[1].pc = "recency"
    /\ Thread(1, RecencyStepAt(scorer, heap, frames[1],
                               Datetime(run.clock, FALSE, 0)))

ClockRelevance ==
    /\ frames[1].pc = "relevance"
    /\ Thread(1, RelevanceStepAt(scorer, heap, frames[1],
                                 Datetime(run.clock, FALSE, 0)))

ClockAssign ==
    /\ frames[1].pc = "assign"
    /\ Thread(1, AssignStep(scorer, heap, frames[1]))

NextClock ==
    \/ ClockTick
    \/ ClockCopy
    \/ ClockRead
    \/ ClockBase
    \/ ClockRecency
    \/ ClockRelevance
    \/ ClockAssign

SpecClock == InitClock /\ [][NextClock]_vars

(***************************************************************************)
(* SpecScroll: RankingDataPreparation.fetch_all_documents, one action per  *)
(* request it makes to the scroll API: the initial search, each scroll     *)
(* call, the clearing of the scroll context.  run.pages is the pages       *)
(* received and run.log the requests made.                                 *)
(***************************************************************************)
MaxScrolls == 3
MaxHits == 2

\* A hit of the server: its _id and its _source.
Hit(id) == [id |-> id, source |-> Title]

\* The answers of the server to a search or a scroll call when it has given
\* the first `given` documents of the index: an exception, or a scroll id
\* and a page of the next hits, up to MaxHits of them.
ScrollResponses(given) ==
    {[kind |-> "raise"]}
    \cup {[kind |-> "page", scroll_id |-> s,
           hits |-> [i \in 1 .. n |-> Hit(given + i)]] :
             s \in {"s1", "s2"}, n \in 0 .. MaxHits}

\* doc = hit['_source']; doc['_id'] = hit['_id']
HitDocument(hit) == [k \in {"_id"} |-> hit.id] @@ hit.source

\* for hit in hits: documents.append(doc)
Collected(documents, hits) ==
    documents \o [i \in 1 .. Len(hits) |-> HitDocument(hits[i])]

\* Variant: the hits collected before the failure are returned.
ScrollFailed_keeping(r) ==
    [r EXCEPT !.pc = "done", !.failed = TRUE, !.result = Return(r.documents)]

\* except Exception: return []
ScrollFailed(r) ==
    [r EXCEPT !.pc = "done", !.failed = TRUE, !.result = Return(<<>>)]

\* A page received: its hits collected, and the test of the while loop.
ScrollTurn(r, response) ==
    [r EXCEPT !.scroll_id = response.scroll_id,
              !.hits = response.hits,
              !.pages = Append(@, response.hits),
              !.documents = Collected(@, response.hits),
              !.pc = IF Len(response.hits) > 0 THEN "scroll" ELSE "clear"]

InitScroll ==
    /\ scorer = DefaultScorer
    /\ heap = <<>>
    /\ hist = <<>>
    /\ frames = <<>>
    /\ run = [pc |-> "search", steps |-> {}, scroll_id |-> "", hits |-> <<>>,
              documents |-> <<>>, pages |-> <<>>, log |-> <<>>,
              failed |-> FALSE, result |-> None]

\* response = self.es_client.es.search(...), and the first batch.
ScrollSearch ==
    /\ \E response \in ScrollResponses(Len(run.documents)) :
          Step("search",
               IF response.kind = "raise"
               THEN ScrollFailed([run EXCEPT !.log = Append(@, <<"search", "">>)])
               ELSE ScrollTurn([run EXCEPT !.log = Append(@, <<"search", "">>)],
                               response))
    /\ UNCHANGED heap

\* while len(hits) > 0: one scroll call with the scroll id held.  The
\* server gives at most MaxScrolls pages that are not empty.
ScrollNext ==
    /\ \E response \in ScrollResponses(Len(run.documents)) :
          /\ response.kind = "page" /\ Len(run.pages) >= MaxScrolls
                => response.hits = <<>>
          /\ Step("scroll",
                  IF response.kind = "raise"
                  THEN ScrollFailed([run EXCEPT !.log =
                                        Append(@, <<"scroll", run.scroll_id>>)])
                  ELSE ScrollTurn([run EXCEPT !.log =
                                      Append(@, <<"scroll", run.scroll_id>>)],
                                  response))
    /\ UNCHANGED heap

\* self.es_client.es.clear_scroll(scroll_id=scroll_id); return documents
ScrollClear ==
    /\ \E cleared \in BOOLEAN :
          Step("clear",
               IF cleared
               THEN [run EXCEPT !.pc = "done",
                                !.log = Append(@, <<"clear", run.scroll_id>>),
                                !.result = Return(run.documents)]
               ELSE ScrollFailed([run EXCEPT !.log =
                                     Append(@, <<"clear", run.scroll_id>>)]))
    /\ UNCHANGED heap

NextScroll == ScrollSearch \/ ScrollNext \/ ScrollClear

SpecScroll == InitScroll /\ [][NextScroll]_vars

(***************************************************************************)
(* SpecMain: the command line of run_query.py.  main validates the         *)
(* configuration read from the environment, serves the two validation      *)
(* flags, and otherwise runs process_query, whose steps are those of       *)
(* SpecQuery, and turns its result into the exit code.  run.env is the     *)
(* environment, run.args the parsed arguments, run.exit the exit code once *)
(* main has returned.                                                      *)
(***************************************************************************)
\* The substrings of ELASTIC_URL that is_cloud_deployment looks for.
CloudMarkers ==
    {"elastic-cloud", "aws.found.io", "gcp.found.io", "azure.found.io", "es."}

\* A URL, and the substrings among CloudMarkers that occur in it.
Url(text, markers) == [text |-> text, markers |-> markers]

\* The values ELASTIC_URL may have: the default, a local host, two cloud
\* endpoints.
Urls ==
    {Url("http://localhost:9200", {}),
     Url("http://elastic.internal:9200", {}),
     Url("https://my-deployment.es.us-central1.gcp.cloud.es.io:443", {"es."}),
     Url("https://abc123.us-east-1.aws.found.io:9243", {"aws.found.io"})}

\* The environments: a variable that is unset or empty is "".
Environments ==
    [SERPAPI_KEY : {"", "serp-key"}, ELASTIC_URL : Urls,
     ELASTIC_API_KEY : {"", "api-key"}]

\* ELASTIC_URL names a cloud endpoint.
PointsAtCloud(env) == env.ELASTIC_URL.markers \cap CloudMarkers # {}

\* is_cloud_deployment
is_cloud_deployment(env) == env.ELASTIC_API_KEY # "" /\ PointsAtCloud(env)

\* The missing_vars of validate_config.
missing_vars(env) ==
    (IF env.SERPAPI_KEY = "" THEN <<"SERPAPI_KEY">> ELSE <<>>)
    \o (IF is_cloud_deployment(env) /\ env.ELASTIC_API_KEY = ""
        THEN <<"ELASTIC_API_KEY">> ELSE <<>>)

\* validate_config
validate_config(env) ==
    IF missing_vars(env) # <<>>
    THEN Raise("ValueError", missing_vars(env))
    ELSE Return(TRUE)

\* validate_cloud_config: skipped off the cloud, else the connection test
\* and the creation of the index.
validate_cloud_config(env, connected, created) ==
    IF ~is_cloud_deployment(env) THEN TRUE ELSE connected /\ created

\* return 0 if success else 1
ExitCode(success) == IF success THEN <<0>> ELSE <<1>>

Exited(r, code) == [r EXCEPT !.pc = "exited", !.exit = code]

InitMain ==
    /\ scorer = DefaultScorer
    /\ heap = <<>>
    /\ hist = <<>>
    /\ frames = <<>>
    /\ \E env \in Environments, args \in [validate_config : BOOLEAN,
                                         validate_cloud : BOOLEAN],
          n \in 1 .. MaxItems :
          run = [pc |-> "validate", steps |-> {}, query |-> "python tutorial",
                 env |-> env, args |-> args, validated |-> None,
                 raw_results |->
                     [i \in 1 .. n |->
                         [title |-> "Latest Breaking News",
                          pagemap |-> IF i = 1 THEN {"videoobject"}
                                      ELSE {"newsarticle"},
                          position |-> i]],
                 utcoffset |-> 0, utcnow |-> RefWall,
                 videos |-> <<>>, articles |-> <<>>,
                 structured_docs |-> <<>>, scored_docs |-> <<>>,
                 succeeded |-> 0, reports |-> <<>>, result |-> None,
                 exit |-> <<>>]

\* main: validate_config(), and the exit on its ValueError.
MainValidate ==
    /\ \E validated \in {validate_config(run.env)} :
          Step("validate",
               IF Raised(validated)
               THEN Exited([run EXCEPT !.validated = validated], <<1>>)
               ELSE [run EXCEPT !.pc = "flags", !.validated = validated])
    /\ UNCHANGED heap

\* Variant: the validation flags not looked at.
MainFlags_ignored ==
    /\ Step("flags", [run EXCEPT !.pc = "fetch"])
    /\ UNCHANGED heap

\* main: --validate-config, then --validate-cloud, else the query.
MainFlags ==
    /\ \E connected, created \in BOOLEAN :
          Step("flags",
               IF run.args.validate_config THEN Exited(run, <<0>>)
               ELSE IF run.args.validate_cloud
               THEN Exited(run, ExitCode(validate_cloud_config(run.env,
                                             connected, created)))
               ELSE [run EXCEPT !.pc = "fetch"])
    /\ UNCHANGED heap

\* main: process_query has returned.
MainReturn ==
    /\ Step("done", Exited(run, ExitCode(run.result)))
    /\ UNCHANGED heap

\* main: the user interrupts while process_query runs.
MainInterrupt ==
    /\ run.pc \in {"fetch", "structure", "score", "index"}
    /\ run' = Exited(run, <<1>>)
    /\ UNCHANGED <<scorer, heap, hist, frames>>

NextMain ==
    \/ MainValidate \/ MainFlags
    \/ QueryFetch \/ QueryStructure \/ QueryScore \/ QueryIndex
    \/ MainReturn \/ MainInterrupt

SpecMain == InitMain /\ [][NextMain]_vars

(***************************************************************************)
(* SpecDecay: scorers constructed with any decay_days, which __init__       *)
(* stores as given, scoring documents whose rank and timestamp are valid,   *)
(* the latest two calls kept.                                               *)
(***************************************************************************)
DecayDays == {0 - 30, 0 - 1, 0, 1, 30}

DecayTimestamps == {Str(RefWall - a, "", 0) : a \in {0, 23, Days(30), Days(60)}}

DecayDates == {Datetime(RefWall, FALSE, 0), None}

InitDecay ==
    /\ scorer \in {RelevanceScorer(Tenths(6), Tenths(4), d, Tenths(5)) :
                     d \in DecayDays}
    /\ heap \in {<<Title @@ [k \in {"rank"} |-> 1] @@ [k \in {"timestamp"} |-> t]>> :
                   t \in DecayTimestamps}
    /\ hist = <<>>
    /\ run = Idle /\ frames = <<>>

NextDecay ==
    \/ \E timestamp \in DecayTimestamps, current_date \in DecayDates :
          RecencyCall(timestamp, current_date, Keep(2))
    \/ \E rank \in {1, 5}, timestamp \in DecayTimestamps :
          RelevanceCall(rank, timestamp, Datetime(RefWall, FALSE, 0), Keep(2))
    \/ \E document \in 1 .. Len(heap) :
          EnrichCall(document, Datetime(RefWall, FALSE, 0), Keep(2))

SpecDecay == InitDecay /\ [][NextDecay]_vars

(***************************************************************************)
(* Properties.                                                             *)
(***************************************************************************)
Calls == {hist[i] : i \in 1 .. Len(hist)}

BaseRankCalls == {c \in Calls : c.op = "calculate_base_rank_score"}

RecencyCalls == {c \in Calls : c.op = "calculate_recency_score"}

MissingTimestampError ==
    Raise("ValueError", "Document missing 'timestamp' field")

InvalidRankError == Raise("ValueError", "Rank must be positive")

\* v is 1/rank to the precision of the floats: rank * v is 1 or the float
\* just below it.
IsReciprocal(v, rank) ==
    LET p == FMul(v, FInt(rank))
    IN  FLeq(p, One) /\ FLeq(<<99999990, -8>>, p)

\* C4: calculate_base_rank_score raises the invalid-rank error for every rank
\* <= 0, zero and negative alike, and gives no score for it.
C4_NonPositiveRankRejected ==
    \A c \in BaseRankCalls : c.args.rank <= 0 => c.ret = InvalidRankError

C4_Witness ==
    /\ Len(hist) = 2
    /\ hist[1].op = "calculate_base_rank_score" /\ hist[1].args.rank = 0
    /\ hist[2].op = "calculate_base_rank_score" /\ hist[2].args.rank < 0
    /\ Raised(hist[1].ret) /\ Raised(hist[2].ret)

\* C5: for every rank >= 1 calculate_base_rank_score returns 1/rank, which is
\* never zero, is exactly 1.0 at rank 1, and is strictly smaller for the
\* larger of two ranks.
C5_BaseRankScore ==
    /\ \A c \in BaseRankCalls :
          c.args.rank >= 1 =>
              /\ Returned(c.ret)
              /\ IsReciprocal(c.ret.value, c.args.rank)
              /\ ~IsZero(c.ret.value)
              /\ (c.args.rank = 1 => c.ret.value = One)
    /\ \A c, d \in BaseRankCalls :
          (1 <= c.args.rank /\ c.args.rank < d.args.rank) =>
              FLess(d.ret.value, c.ret.value)

C5_Witness ==
    /\ Len(hist) = 2
    /\ hist[1].op = "calculate_base_rank_score" /\ hist[1].args.rank = 1
    /\ hist[2].op = "calculate_base_rank_score" /\ hist[2].args.rank = MaxRank
    /\ hist[1].ret = Return(One)
    /\ FLess(hist[2].ret.value, hist[1].ret.value)

\* The reference time a call compares with.
RefOf(c) == IF c.args.current_date = None THEN Now ELSE c.args.current_date

\* The timestamp of a call is a datetime or a string that parses.
Parseable(c) ==
    c.args.timestamp.type = "datetime" \/ c.args.timestamp.wellformed

\* Whole days from the reading of the timestamp to the reading of the
\* reference, rounded down.
AgeDays(c) == (RefOf(c).wall - c.args.timestamp.wall) \div TicksPerDay

\* C6, as claimed: a timestamp at or before the reference gives days_diff >= 0
\* and a score <= 1, and a timestamp after the reference, by any amount, gives
\* days_diff < 0 and a score > 1.
C6_FutureScoresAboveOne ==
    \A c \in RecencyCalls :
        Parseable(c) =>
            /\ c.args.timestamp.wall <= RefOf(c).wall =>
                  /\ AgeDays(c) >= 0
                  /\ Returned(c.ret) /\ FLeq(c.ret.value, One)
            /\ c.args.timestamp.wall > RefOf(c).wall =>
                  /\ AgeDays(c) < 0
                  /\ Returned(c.ret) /\ FLess(One, c.ret.value)

\* C7: timezone information is stripped, not converted: calls whose timestamps
\* show the same date and time, and whose reference times show the same date
\* and time, give the same result whatever offsets either side carries, and no
\* call fails for mixing an aware with a naive side.
C7_TimezoneStripped ==
    /\ \A c, d \in RecencyCalls :
          (/\ Parseable(c) /\ Parseable(d)
           /\ c.args.timestamp.wall = d.args.timestamp.wall
           /\ RefOf(c).wall = RefOf(d).wall) => c.ret = d.ret
    /\ \A c \in RecencyCalls :
          (Parseable(c) /\ Raised(c.ret)) => c.ret.exc # "TypeError"

C7_Witness ==
    /\ Len(hist) = 2
    /\ hist[1].args.timestamp = Str(RefWall - 23, "+hh:mm", 5)
    /\ hist[2].args.timestamp = Str(RefWall - 23, "", 0)
    /\ hist[1].args.current_date = Datetime(RefWall, TRUE, 0 - 8)
    /\ hist[2].args.current_date = Datetime(RefWall, TRUE, 0 - 8)
    /\ Returned(hist[1].ret) /\ hist[1].ret = hist[2].ret

\* C8: a timestamp scored against a reference time showing the same date and
\* time gets exactly 1.0, for every decay_days > 0.
C8_SameTimeScoresOne ==
    \A c \in RecencyCalls :
        (/\ Parseable(c)
         /\ c.args.timestamp.wall = RefOf(c).wall
         /\ scorer.decay_days > 0) => c.ret = Return(One)

C8_Witness ==
    /\ scorer.decay_days = 1
    /\ \E c \in RecencyCalls :
          /\ c.args.timestamp = Str(RefWall, "Z", 0)
          /\ c.args.current_date = Datetime(RefWall, TRUE, 0 - 8)
          /\ c.ret = Return(One)

\* Two calls that score against the same reference time and both give a score.
SameReference(c, d) ==
    /\ Parseable(c) /\ Parseable(d)
    /\ c.args.current_date = d.args.current_date
    /\ Returned(c.ret) /\ Returned(d.ret)

\* C9, as claimed: of two documents scored against the same reference, the one
\* with the larger days_diff always gets the strictly smaller score.
C9_StrictlyDecreasing ==
    \A c, d \in RecencyCalls :
        (SameReference(c, d) /\ AgeDays(c) < AgeDays(d)) =>
            FLess(d.ret.value, c.ret.value)

\* C9, amended: the larger days_diff never gets the larger score, and gets a
\* strictly smaller one as long as it is at most 700 decay periods.
C9_Decreasing ==
    \A c, d \in RecencyCalls :
        (SameReference(c, d) /\ AgeDays(c) < AgeDays(d)) =>
            /\ FLeq(d.ret.value, c.ret.value)
            /\ AgeDays(d) <= 700 * scorer.decay_days =>
                  FLess(d.ret.value, c.ret.value)

C9_Witness ==
    /\ Len(hist) = 2
    /\ SameReference(hist[1], hist[2])
    /\ AgeDays(hist[1]) = 30 /\ AgeDays(hist[2]) = 60
    /\ FLess(hist[2].ret.value, hist[1].ret.value)
    /\ FLess(Zero, hist[2].ret.value)

\* The three calls of a comparison: the base rank score of a rank, the recency
\* score of a timestamp, and the relevance score of that rank and timestamp.
Comparison ==
    /\ Len(hist) = 3
    /\ hist[1].op = "calculate_base_rank_score"
    /\ hist[2].op = "calculate_recency_score"
    /\ hist[3].op = "calculate_relevance_score"
    /\ hist[3].args.rank = hist[1].args.rank
    /\ hist[3].args.timestamp = hist[2].args.timestamp
    /\ hist[3].args.current_date = hist[2].args.current_date

\* C1: for a rank >= 1 and a timestamp that parses, the relevance score is
\* base_weight * base rank score + recency_weight * recency score with the
\* scorer's weights; with the weights 0.6/0.4, rank 1 and a timestamp equal to
\* the reference time it is exactly 1.0.
C1_WeightedSum ==
    (/\ Comparison
     /\ hist[1].args.rank >= 1
     /\ Parseable(hist[2])
     /\ Returned(hist[2].ret)) =>
        /\ Returned(hist[1].ret)
        /\ hist[3].ret =
              Return(FAdd(FMul(scorer.base_weight, hist[1].ret.value),
                          FMul(scorer.recency_weight, hist[2].ret.value)))
        /\ (/\ scorer.base_weight = Tenths(6)
            /\ scorer.recency_weight = Tenths(4)
            /\ hist[1].args.rank = 1
            /\ hist[2].args.timestamp.wall = RefOf(hist[2]).wall) =>
               /\ hist[1].ret = Return(One)
               /\ hist[2].ret = Return(One)
               /\ hist[3].ret = Return(One)

C1_Witness ==
    /\ Comparison
    /\ scorer.base_weight = Tenths(8) /\ scorer.recency_weight = Tenths(2)
    /\ hist[1].args.rank = 5
    /\ AgeDays(hist[2]) = 30
    /\ Returned(hist[3].ret)
    /\ FLess(hist[1].ret.value, hist[3].ret.value)
    /\ FLess(hist[3].ret.value, hist[2].ret.value)

\* The dicts that exist after the i-th call kept.
Post(i) == IF i < Len(hist) THEN hist[i + 1].pre ELSE heap

\* The i-th call kept is an enrich_document that returned a record.
Enriched(i) == hist[i].op = "enrich_document" /\ Returned(hist[i].ret)

\* The caller's document as the i-th call found it, and the record it
\* returned.
Input(i) == hist[i].pre[hist[i].args.document]
Output(i) == Post(i)[hist[i].ret.value]

\* Every dict that existed before the i-th call is as it was, and the
\* returned record is none of them.
InputUntouched(i) ==
    /\ \A r \in 1 .. Len(hist[i].pre) : Post(i)[r] = hist[i].pre[r]
    /\ hist[i].ret.value \notin 1 .. Len(hist[i].pre)

\* C2, as claimed: after a successful call the input is as it was, and the
\* returned record is another record holding every input key with its input
\* value plus exactly the four score keys, user_engagement_score being the
\* configured default.
C2_InputPlusFour ==
    \A i \in 1 .. Len(hist) :
        Enriched(i) =>
            /\ InputUntouched(i)
            /\ DOMAIN Output(i) = DOMAIN Input(i) \cup ScoreKeys
            /\ \A k \in DOMAIN Input(i) : Output(i)[k] = Input(i)[k]
            /\ Output(i)["user_engagement_score"] = scorer.default_engagement

\* C2, amended: as claimed, except that only the input keys other than the
\* four score keys keep their input value in the returned record.
C2_InputKept ==
    \A i \in 1 .. Len(hist) :
        Enriched(i) =>
            /\ InputUntouched(i)
            /\ DOMAIN Output(i) = DOMAIN Input(i) \cup ScoreKeys
            /\ \A k \in DOMAIN Input(i) \ ScoreKeys : Output(i)[k] = Input(i)[k]
            /\ Output(i)["user_engagement_score"] = scorer.default_engagement

C2_Witness ==
    /\ Len(hist) = 1 /\ Enriched(1)
    /\ DOMAIN Input(1) = {"title", "rank", "timestamp", "relevance_score"}
    /\ Input(1)["relevance_score"] = FInt(9)
    /\ heap[hist[1].args.document]["relevance_score"] = FInt(9)
    /\ Output(1)["relevance_score"] # FInt(9)
    /\ Output(1)["title"] = Input(1)["title"]

\* C3: a document with no timestamp fails with the missing-field error
\* whatever else it holds, an invalid rank included, and no record is made.
C3_MissingTimestamp ==
    \A i \in 1 .. Len(hist) :
        (/\ hist[i].op = "enrich_document"
         /\ Get(Input(i), "timestamp", None) = None) =>
            /\ hist[i].ret = MissingTimestampError
            /\ Post(i) = hist[i].pre

C3_Witness ==
    /\ Len(hist) = 1
    /\ "timestamp" \notin DOMAIN Input(1)
    /\ Get(Input(1), "rank", 1) = 0
    /\ hist[1].ret = MissingTimestampError
    /\ heap = hist[1].pre

\* The second call kept enriches the record the first one returned, with the
\* same reference time.
Reenriched ==
    /\ Len(hist) = 2 /\ Enriched(1) /\ Enriched(2)
    /\ hist[2].args.document = hist[1].ret.value
    /\ hist[2].args.current_date = hist[1].args.current_date

\* C10: enriching the result of an enrichment again, with the same scorer and
\* reference time, returns a record equal to the first result.
C10_Idempotent == Reenriched => Output(2) = Output(1)

C10_Witness ==
    /\ Reenriched
    /\ hist[2].ret.value # hist[1].ret.value
    /\ Output(2) = Output(1)
    /\ Get(Output(2), "rank", 1) = 5
    /\ FLess(Output(2)["relevance_score"], One)

InvalidTimestampError == Raise("ValueError", "Invalid isoformat string")

\* The i-th call kept is an enrich_document, and the rank and the timestamp
\* its document holds.
IsEnrich(i) == hist[i].op = "enrich_document"
RankOf(i) == Get(Input(i), "rank", 1)
TimestampOf(i) == Get(Input(i), "timestamp", None)

\* C11: when the rank or the timestamp of a document is refused, the error of
\* the validator that refused it reaches the caller as it is, no record is
\* returned and every dict is as it was before the call.
C11_AllOrNothing ==
    \A i \in 1 .. Len(hist) :
        (IsEnrich(i) /\ TimestampOf(i) # None) =>
            /\ RankOf(i) <= 0 => hist[i].ret = InvalidRankError
            /\ (RankOf(i) >= 1 /\ TimestampOf(i) = Malformed) =>
                  hist[i].ret = InvalidTimestampError
            /\ Raised(hist[i].ret) => Post(i) = hist[i].pre

C11_Witness ==
    /\ Len(hist) = 2
    /\ IsEnrich(1) /\ IsEnrich(2)
    /\ RankOf(2) = 5 /\ TimestampOf(2) = Malformed
    /\ hist[2].ret = InvalidTimestampError
    /\ heap = hist[2].pre /\ Len(heap) = 1

\* C12: a timestamp string that parses under neither form makes
\* calculate_recency_score fail with the invalid-timestamp error; no score is
\* returned.
C12_MalformedRejected ==
    \A c \in RecencyCalls :
        (c.args.timestamp.type = "str" /\ ~c.args.timestamp.wellformed) =>
            c.ret = InvalidTimestampError

C12_Witness ==
    /\ Len(hist) = 2
    /\ hist[1].args.timestamp = Malformed /\ hist[1].args.current_date = None
    /\ hist[2].args.timestamp = Malformed
    /\ hist[2].args.current_date = Datetime(RefWall, FALSE, 0)
    /\ hist[1].ret = InvalidTimestampError /\ hist[2].ret = InvalidTimestampError

\* The reference time an enrich_document call compares with.
EnrichRef(i) == hist[i].args.current_date

\* C14: a document with no rank field is scored as rank 1 would be, with
\* base_rank_score 1.0, and gets no rank field; a document with a rank field
\* is scored with that rank and keeps it.
C14_RankDefault ==
    \A i \in 1 .. Len(hist) :
        Enriched(i) =>
            /\ "rank" \notin DOMAIN Input(i) =>
                  /\ "rank" \notin DOMAIN Output(i)
                  /\ Output(i)["base_rank_score"] = One
                  /\ Output(i)["relevance_score"] =
                        Round(calculate_relevance_score(scorer, 1,
                                  TimestampOf(i), EnrichRef(i), Now).value, 6)
            /\ "rank" \in DOMAIN Input(i) =>
                  /\ Output(i)["rank"] = Input(i)["rank"]
                  /\ Output(i)["base_rank_score"] =
                        Round(FDivInt(One, Input(i)["rank"]), 6)
                  /\ Output(i)["relevance_score"] =
                        Round(calculate_relevance_score(scorer, Input(i)["rank"],
                                  TimestampOf(i), EnrichRef(i), Now).value, 6)

C14_Witness ==
    /\ Len(hist) = 1 /\ Enriched(1)
    /\ DOMAIN Input(1) = {"title", "timestamp"}
    /\ TimestampOf(1) = Str(RefWall - Days(60), "+hh:mm", 5)
    /\ DOMAIN Output(1) = {"title", "timestamp"} \cup ScoreKeys
    /\ Output(1)["base_rank_score"] = One
    /\ FLess(Output(1)["relevance_score"], One)

\* C13, as claimed: with a decay_days that is zero or negative, every scoring
\* call fails instead of returning a score.
C13_NonPositiveDecayFails ==
    scorer.decay_days <= 0 => \A c \in Calls : Raised(c.ret)

\* The pipeline has gone through process_documents.
Processed == "process" \in run.steps

\* enrich_document on the j-th fetched document alone, the others not
\* touched, and the record it gives.
Alone(j) == enrich_document(scorer, SubSeq(heap, 1, Len(run.documents)), j,
                            run.current_date, run.current_date)
AloneRecord(j) == Alone(j).heap[Alone(j).ret.value]

\* The fetched documents that enrich, in their order.
Enrichable ==
    SelectSeq(run.documents, LAMBDA j : Returned(Alone(j).ret))

\* C15: the output of process_documents is the enrichments of the documents
\* that enrich, in input order, the failure count is the number of the
\* others, the fetched documents are as they were, and 10 documents of which
\* one has a malformed timestamp give 9 enriched and 1 failure.
C15_BatchKeepsOthers ==
    Processed =>
        /\ \A enrichable \in {Enrichable} :
              /\ Len(run.enriched_docs) = Len(enrichable)
              /\ \A k \in 1 .. Len(enrichable) :
                    heap[run.enriched_docs[k]] = AloneRecord(enrichable[k])
              /\ run.failed_count = Len(run.documents) - Len(enrichable)
        /\ \A j \in 1 .. Len(run.documents) :
              heap[j] = run.index[j] @@ [k \in {"_id"} |-> j]
              \/ "update" \in run.steps
        /\ (/\ Len(run.documents) = BatchSize
            /\ Cardinality({j \in 1 .. BatchSize :
                               Get(heap[j], "timestamp", None) = Malformed}) = 1) =>
               /\ Len(run.enriched_docs) = BatchSize - 1
               /\ run.failed_count = 1

C15_Witness ==
    /\ Processed
    /\ Len(run.documents) = BatchSize
    /\ Get(heap[4], "timestamp", None) = Malformed
    /\ Len(run.enriched_docs) = BatchSize - 1
    /\ run.failed_count = 1
    /\ heap[run.enriched_docs[4]]["_id"] = 5

\* C16: once the documents are processed, the run stops, with failure and
\* before any update or export, exactly when no document was enriched; with
\* one or more enriched it goes on to the update and then the export however
\* many failed.
C16_NoHaltOnPartialFailure ==
    Processed =>
        /\ run.enriched_docs = <<>> =>
              /\ run.pc = "done" /\ run.result = FALSE
              /\ "update" \notin run.steps /\ "save" \notin run.steps
        /\ run.enriched_docs # <<>> =>
              /\ run.pc \in {"update", "save", "done"}
              /\ run.pc = "save" => "update" \in run.steps
              /\ run.pc = "done" => {"update", "save"} \subseteq run.steps

C16_Witness ==
    /\ run.pc = "done" /\ run.result = TRUE
    /\ Len(run.documents) = 3
    /\ Len(run.enriched_docs) = 1 /\ run.failed_count = 2
    /\ {"update", "save"} \subseteq run.steps
    /\ Len(run.file) = 1

\* C19, as claimed: with the weights 0.6/0.4, the relevance_score that
\* enrich_document stores for a document with rank >= 1 and a timestamp that
\* parses lies between 0 and 1.
C19_RelevanceBounded ==
    \A i \in 1 .. Len(hist) :
        (/\ Enriched(i)
         /\ scorer.base_weight = Tenths(6) /\ scorer.recency_weight = Tenths(4)
         /\ RankOf(i) >= 1) =>
            /\ FLeq(Zero, Output(i)["relevance_score"])
            /\ FLeq(Output(i)["relevance_score"], One)

\* The conversions to the Gemini format that ran.
GeminiCalls ==
    {c \in Calls : c.op = "convert_to_gemini_format" /\ c.ret.value.ok}

\* The lines of the structured file that hold a record with all seven
\* required fields.
CompleteLines ==
    SelectSeq(run.files[StructuredFile],
              LAMBDA l : l.valid /\ required_fields \subseteq DOMAIN l.members)

\* The two-turn record the claim describes for a structured line.
TwoTurns(line) ==
    LET data == JsonLoads(line).value
    IN  [contents |->
            <<[role |-> "user", parts |-> <<[text |-> Prompt(data)]>>],
              [role |-> "model",
               parts |-> <<[text |-> FloatStr(data["relevance_score"])]>>]>>]

\* C20: converting the structured file to the Gemini format directly, and
\* converting it to the Vertex format and that to the Gemini format, write
\* the same records: for each record with the seven required fields, the
\* prompt assembled from its fields and the string form of relevance_score.
C20_SameGeminiRecords ==
    /\ \A c, d \in GeminiCalls :
          (c.ret.value.read = StructuredFile /\ d.ret.value.read = VertexFile)
              => c.ret.value.written = d.ret.value.written
    /\ \A c \in GeminiCalls : \A complete \in {CompleteLines} :
          /\ Len(c.ret.value.written) = Len(complete)
          /\ \A i \in 1 .. Len(complete) :
                c.ret.value.written[i] = JsonDumps(TwoTurns(complete[i]))

C20_Witness ==
    /\ Len(hist) = 2
    /\ hist[1] \in GeminiCalls /\ hist[1].ret.value.read = StructuredFile
    /\ hist[2] \in GeminiCalls /\ hist[2].ret.value.read = VertexFile
    /\ hist[1].ret.value.written = hist[2].ret.value.written
    /\ Len(run.files[StructuredFile]) = 2
    /\ Len(hist[2].ret.value.written) = 1
    /\ hist[2].ret.value.skipped_count = 0

\* The documents of scored_docs that carry the four scores.
Scored ==
    {i \in 1 .. Len(run.scored_docs) :
        ScoreKeys \subseteq DOMAIN heap[run.scored_docs[i]]}

ConfigurationFields ==
    {"base_weight", "recency_weight", "decay_days", "default_engagement"}

\* The call of a frame made alone, on the scorer and the heap as they were
\* before any call.
CalledAlone(f) ==
    enrich_document(run.scorer0, run.heap0, f.document, f.current_date,
                    f.current_date)

\* A finished frame gave what the call alone gives: the same record, or the
\* same exception.
SameOutcome(f, alone) ==
    IF Returned(f.ret)
    THEN Returned(alone.ret) /\ heap[f.ret.value] = alone.heap[alone.ret.value]
    ELSE f.ret = alone.ret

\* C18: of the calls of enrich_document that run concurrently on one scorer
\* with an explicit reference time, under every interleaving of their
\* statements, each that has finished returned the record, or raised the
\* exception, of the same call run alone; the scorer's four configuration
\* fields are what they were before the calls, and so are the documents
\* the calls were given.
C18_ConcurrentAsAlone ==
    /\ \A k \in ConfigurationFields : scorer[k] = run.scorer0[k]
    /\ \A k \in 1 .. Len(run.heap0) : heap[k] = run.heap0[k]
    /\ \A i \in DOMAIN frames :
          frames[i].pc = "done" =>
              \A alone \in {CalledAlone(frames[i])} :
                  SameOutcome(frames[i], alone)

\* Two calls on different documents that overlap: the second thread made
\* its copy first and is still at its assignments when the first thread has
\* returned its record.
C18_Witness ==
    /\ Len(frames) >= 2
    /\ frames[1].pc = "done"
    /\ Returned(frames[1].ret)
    /\ frames[2].pc = "assign"
    /\ frames[2].enriched_doc < frames[1].enriched_doc
    /\ frames[1].document # frames[2].document

\* The links of a sequence of results.
Links(results) == [k \in 1 .. Len(results) |-> results[k].link]

\* The links the service gave on the pages that did not end the loop, in
\* the order the code takes them: a page's inline videos, which count on
\* the first page only, then its organic results.
LinksServed ==
    Flatten([i \in 1 .. Len(run.log) |->
        IF Breaks(run.log[i].response) THEN <<>>
        ELSE (IF i = 1 THEN Links(run.log[i].response.inline_videos)
              ELSE <<>>)
             \o Links(run.log[i].response.organic_results)])

\* C21: as the docstring of fetch_google_results has it, the call raises
\* ValueError whenever no result was found or the service answered a
\* request with an API error, and so returns a list only when no request
\* met an API error.
C21_RaisesOnAnyError ==
    run.pc = "done" =>
        /\ (run.all_results = <<>>
             \/ \E i \in 1 .. Len(run.log) :
                    run.log[i].response.kind = "error")
            => (Raised(run.result) /\ run.result.exc = "ValueError")
        /\ Returned(run.result)
            => \A i \in 1 .. Len(run.log) :
                   run.log[i].response.kind # "error"

C22_RelevanceFromStoredScores ==
    (frames[1].pc = "done" /\ Returned(frames[1].ret)) =>
        LET f == frames[1]
            record == heap[f.ret.value]
        IN  /\ record["base_rank_score"] = Round(f.base_rank_score, 6)
            /\ record["recency_score"] = Round(f.recency_score, 6)
            /\ record["relevance_score"] =
                   Round(FAdd(FMul(scorer.base_weight, f.base_rank_score),
                              FMul(scorer.recency_weight, f.recency_score)),
                         6)

Positions(items) == {items[k].position : k \in 1 .. Len(items)}

InOrder(items) ==
    \A j, k \in 1 .. Len(items) :
        j < k => items[j].position < items[k].position

\* C25: once the results are categorized, the videos and the articles are
\* items of the input, every input item is in exactly one of the two lists
\* and once, each list is in input order, an item is a video exactly when
\* it carries the videoobject tag, whatever else it carries, and all other
\* items, tagged as articles or not at all, are articles.
C25_Partition ==
    "structure" \in run.steps =>
        /\ Len(run.videos) + Len(run.articles) = Len(run.raw_results)
        /\ Positions(run.videos) \cup Positions(run.articles)
               = 1 .. Len(run.raw_results)
        /\ \A k \in 1 .. Len(run.videos) :
              /\ run.videos[k] = run.raw_results[run.videos[k].position]
              /\ "videoobject" \in run.videos[k].pagemap
        /\ \A k \in 1 .. Len(run.articles) :
              /\ run.articles[k] = run.raw_results[run.articles[k].position]
              /\ "videoobject" \notin run.articles[k].pagemap
        /\ InOrder(run.videos)
        /\ InOrder(run.articles)

\* Results categorized of which one carries both the video and an article
\* tag and one carries no tag, with two articles in input order.
C25_Witness ==
    /\ "structure" \in run.steps
    /\ \E k \in 1 .. Len(run.videos) :
          run.videos[k].pagemap = {"videoobject", "article"}
    /\ \E k \in 1 .. Len(run.articles) : run.articles[k].pagemap = {}
    /\ Len(run.articles) >= 2

\* The item the k-th structured document was made of: the videos come
\* first, then the articles.
ItemOf(k) ==
    IF k <= Len(run.videos) THEN run.videos[k]
    ELSE run.articles[k - Len(run.videos)]

\* C23: the rank of every document process_query builds is the position
\* its result had in the fetched list, so the ranks of a run differ.
C23_RankIsFetchedPosition ==
    "structure" \in run.steps =>
        /\ \A k \in 1 .. Len(run.structured_docs) :
              heap[run.structured_docs[k]]["rank"] = ItemOf(k).position
        /\ \A j, k \in 1 .. Len(run.structured_docs) :
              j # k => heap[run.structured_docs[j]]["rank"]
                          # heap[run.structured_docs[k]]["rank"]

\* C24: every document structured and then scored by process_query has
\* recency_score exactly 1.0, at every UTC offset of the host.
C24_FreshDocumentsScoreOne ==
    "score" \in run.steps =>
        \A k \in 1 .. Len(run.scored_docs) :
            heap[run.scored_docs[k]]["recency_score"] = One

RECURSIVE AllHits(_)
AllHits(pages) ==
    IF pages = <<>> THEN <<>>
    ELSE [i \in 1 .. Len(Head(pages)) |-> HitDocument(Head(pages)[i])]
         \o AllHits(Tail(pages))

Last(s) == s[Len(s)]

C27_WitnessFailed ==
    /\ run.pc = "done"
    /\ run.failed
    /\ Len(run.documents) >= 2
    /\ Last(run.log)[1] = "scroll"

\* The _ids of the documents process_documents enriched.
EnrichedIds == {heap[run.enriched_docs[k]]["_id"] : k \in 1 .. Len(run.enriched_docs)}

\* The document of the index with this _id as it was fetched.
Fetched(id) == DocToSave(heap[run.documents[id]])

\* What the run has done when it returns True.
RunSucceeded ==
    /\ run.steps = {"connect", "fetch", "process", "update", "save"}
    /\ Len(run.documents) >= 1
    /\ Len(run.enriched_docs) >= 1
    /\ Len(run.file) = Len(run.enriched_docs)

\* The index holds, for every document, what was fetched, with the four
\* scores added if the document was enriched and the server took the update.
OnlyEnrichedWritten ==
    "fetch" \in run.steps /\ run.documents # <<>> =>
        \A id \in 1 .. Len(run.index) :
            \/ run.index[id] = Fetched(id)
            \/ /\ "update" \in run.steps
               /\ id \in EnrichedIds
               /\ \E k \in 1 .. Len(run.enriched_docs) :
                     /\ heap[run.enriched_docs[k]]["_id"] = id
                     /\ run.index[id]
                           = UpdateBody(heap[run.enriched_docs[k]]) @@ Fetched(id)

\* C28: run returns True only after the connection test passed, at least
\* one document was fetched, at least one enriched and the export written;
\* the export never starts before the update step was taken; the index is
\* written in the update step only, for enriched documents only, and the
\* update step is taken once, whatever its count and whatever the export
\* does afterwards.
C28_RunOrder ==
    /\ [](run.pc = "done" /\ run.result = TRUE => RunSucceeded)
    /\ [](run.pc = "save" \/ "save" \in run.steps => "update" \in run.steps)
    /\ [](run.pc = "update" => "update" \notin run.steps)
    /\ []OnlyEnrichedWritten
    /\ [][run'.index # run.index => run.pc = "update"]_vars
    /\ [][run.pc = "update" => run'.pc = "save"]_vars

\* A run that returned True though the server refused every update, one
\* document of two having failed to enrich: the index is as it was.
C28_Witness ==
    /\ run.pc = "done"
    /\ run.result = TRUE
    /\ run.updated_count = 0
    /\ Len(run.enriched_docs) < Len(run.documents)

\* A run whose export failed after the index was updated.
C28_WitnessExportFailed ==
    /\ run.pc = "done"
    /\ run.result = FALSE
    /\ "save" \in run.steps
    /\ run.updated_count >= 1
    /\ \E id \in 1 .. Len(run.index) : run.index[id] # Fetched(id)

\* C30: validate_config raises ValueError naming ELASTIC_API_KEY whenever
\* ELASTIC_URL points at a cloud endpoint and the key is not set, and naming
\* SERPAPI_KEY whenever that key is not set, and returns True only when
\* neither is the case.
C30_MissingVariablesListed ==
    "validate" \in run.steps =>
        LET listed == IF Raised(run.validated)
                      THEN {run.validated.msg[k] :
                               k \in 1 .. Len(run.validated.msg)}
                      ELSE {}
        IN  /\ PointsAtCloud(run.env) /\ run.env.ELASTIC_API_KEY = ""
                  => "ELASTIC_API_KEY" \in listed
            /\ run.env.SERPAPI_KEY = "" => "SERPAPI_KEY" \in listed
            /\ Returned(run.validated) =>
                  /\ run.env.SERPAPI_KEY # ""
                  /\ ~(PointsAtCloud(run.env) /\ run.env.ELASTIC_API_KEY = "")

QuerySteps == {"fetch", "structure", "score", "index"}

\* process_query has returned, and has returned True.
ProcessReturned == run.pc = "done" \/ "done" \in run.steps

ReturnedTrue == ProcessReturned /\ run.result = TRUE

\* C29: process_query is started only after validate_config returned and
\* with neither validation flag given; once main has returned from a query
\* run its exit code is 0 exactly when process_query returned True; and
\* process_query returns True exactly when its four steps were all taken
\* and index_to_elastic reported success.
C29_ExitCode ==
    /\ run.pc \in QuerySteps \/ run.steps \cap QuerySteps # {} =>
          /\ Returned(run.validated)
          /\ ~run.args.validate_config
          /\ ~run.args.validate_cloud
          /\ {"validate", "flags"} \subseteq run.steps
    /\ run.pc = "exited" /\ "fetch" \in run.steps =>
          (run.exit = <<0>>) = ReturnedTrue
    /\ ProcessReturned =>
          ReturnedTrue
             = (/\ QuerySteps \subseteq run.steps
                /\ run.reports # <<>>
                /\ Last(run.reports).text
                      = "Indexed N documents with relevance scores")

\* A query run that indexed its documents and exited with code 0.
C29_Witness ==
    /\ run.pc = "exited"
    /\ run.exit = <<0>>
    /\ ReturnedTrue
    /\ Len(run.scored_docs) >= 2
====
